---- MODULE Spec2Model ----
(***************************************************************************)
(* Fleet-health dashboard (src/src/App.tsx): the server registry and its   *)
(* reconciliation from the push channel (WebSocket) and the poll channel   *)
(* (HTTP), the status / alert evaluator, and the push connection.          *)
(***************************************************************************)
EXTENDS Integers, Sequences, FiniteSets, TLC

VARIABLES
    servers,          \* useState<ServerEntry[]>: the registry, in order
    clock,            \* Date.now(), in ms
    now,              \* useState now: the time the cards are rendered with
    connectionState,  \* useState<ConnectionState>
    lastMessageAt,    \* useState<number | null>
    wsReady,          \* wsRef.current.readyState
    backoff,          \* reconnect delay, in 1/100 ms
    reconnectTimer,   \* a reconnect timeout is pending
    listRefreshTimer, \* the list:subscribe interval is active
    shouldReconnect,  \* cleared by the effect cleanup
    sockets,          \* number of WebSocket objects created so far
    liveOthers,       \* sockets other than wsRef.current still CONNECTING or OPEN
    orphanTimers,     \* pending reconnect timeouts whose handle was overwritten
    cards,            \* what ServerCard last rendered, one per registry entry
    pm2ToastRef,      \* useRef Map: per id, the signature and time of its last toast
    gridSize,         \* useState gridSize: width and height of the card grid
    pageIndex,        \* useState pageIndex
    toasts,           \* history: the ids toast.error was called for in the last step
    toastLog,         \* history: per id, the signature and time of its latest toast
    sent,             \* history: the frames ws.send transmitted in the last step
    op,               \* history: the event handled in the last step
    touched           \* history: per id, clock of the last applied update/error

vars == <<servers, clock, now, connectionState, lastMessageAt, wsReady, backoff,
          reconnectTimer, listRefreshTimer, shouldReconnect, sockets, liveOthers,
          orphanTimers, cards, pm2ToastRef, gridSize, pageIndex, toasts, toastLog, sent, op, touched>>

connVars == <<connectionState, wsReady, backoff, reconnectTimer,
              listRefreshTimer, shouldReconnect, sockets, liveOthers, orphanTimers>>

\* the notification throttle and the pager
viewVars == <<pm2ToastRef, gridSize, pageIndex, toasts, toastLog>>

-----------------------------------------------------------------------------
(* Bounds of the model.                                                    *)

MaxList == 2          \* longest list snapshot / stats batch on the wire
MaxTicks == 2         \* how many times the clock advances
MaxSockets == 2       \* how many WebSocket objects are ever created
MaxAttempts == 7      \* the same, in the runs of the connection on its own
MaxRegistry == 7      \* most entries of the registry in the runs of the pager

-----------------------------------------------------------------------------
(* JavaScript values: a tag t and, where there is one, a value v.          *)

Undefined == [t |-> "undefined"]
Null == [t |-> "null"]
Str(s) == [t |-> "string", v |-> s]
Num(n) == [t |-> "number", v |-> n]
Bool(b) == [t |-> "boolean", v |-> b]
Arr(s) == [t |-> "array", v |-> s]
Obj(r) == [t |-> "object", v |-> r]

\* a ?? b
Nullish(a, b) == IF a.t \in {"undefined", "null"} THEN b ELSE a

\* Boolean(a)
Truthy(a) ==
    CASE a.t \in {"undefined", "null"} -> FALSE
      [] a.t = "string" -> a.v # ""
      [] a.t = "number" -> a.v # 0
      [] a.t = "boolean" -> a.v
      [] OTHER -> TRUE

\* a || b
OrElse(a, b) == IF Truthy(a) THEN a ELSE b

\* value.key: undefined unless the value is an object that has the key
Get(value, key) ==
    IF value.t = "object" /\ key \in DOMAIN value.v THEN value.v[key] ELSE Undefined

isRecord(value) == value.t \in {"object", "array"}

toString(value) == IF value.t = "string" THEN value ELSE Undefined
toNumber(value) == IF value.t = "number" THEN value ELSE Undefined
toBoolean(value) == IF value.t = "boolean" THEN value ELSE Undefined

RECURSIVE StringsOf(_)
StringsOf(s) ==
    IF s = <<>> THEN <<>>
    ELSE IF Head(s).t = "string" THEN <<Head(s).v>> \o StringsOf(Tail(s))
    ELSE StringsOf(Tail(s))

toStringArray(value) == IF value.t = "array" THEN StringsOf(value.v) ELSE <<>>

-----------------------------------------------------------------------------
(* Program constants.                                                      *)

STALE_MS == 60000
ALERT_STALE_MS == 90000
WARN_CPU == 85
WARN_MEMORY == 90
WARN_DISK == 92
ALERT_CPU == 90
ALERT_MEMORY == 92
ALERT_DISK == 95
BACKOFF_FLOOR == 100000
BACKOFF_CEILING == 1500000
NORMAL_CLOSURE == 1000
PM2_TOAST_REPEAT_MS == 600000
MIN_CARD_WIDTH == 240
MIN_CARD_HEIGHT == 180
GRID_GAP == 16
FALLBACK_AGE_MS == 15000
\* a close code other than 1000: 1006, the connection was lost
ABNORMAL_CLOSURE == NORMAL_CLOSURE + 6

\* The clock moves in steps of three quarters of the stale threshold, from a
\* positive start: one step leaves an entry fresh, two make it stale.
TimeStep == (STALE_MS * 3) \div 4
StartClock == TimeStep

-----------------------------------------------------------------------------
(* Metric parsers: list snapshots.                                         *)

\* results.push({...}) of parseServerList, for one entry of the array
ParsePushEntry(entry) ==
    IF ~isRecord(entry) THEN <<>>
    ELSE LET serverId == toString(Get(entry, "server_id"))
         IN IF ~Truthy(serverId) THEN <<>>
            ELSE << [server_id |-> serverId.v,
                     server_name |-> toString(Get(entry, "server_name")),
                     host |-> toString(Get(entry, "host")),
                     enabled |-> Nullish(toBoolean(Get(entry, "enabled")), Bool(TRUE)).v,
                     tags |-> toStringArray(Get(entry, "tags"))] >>

RECURSIVE ParsePushEntries(_)
ParsePushEntries(s) ==
    IF s = <<>> THEN <<>> ELSE ParsePushEntry(Head(s)) \o ParsePushEntries(Tail(s))

parseServerList(value) ==
    IF value.t # "array" THEN <<>> ELSE ParsePushEntries(value.v)

\* results.push({...}) of parseApiServerList, for one entry of value.servers
ParseApiEntry(entry) ==
    IF ~isRecord(entry) THEN <<>>
    ELSE LET serverId == Nullish(toString(Get(entry, "id")), toString(Get(entry, "server_id")))
         IN IF ~Truthy(serverId) THEN <<>>
            ELSE << [server_id |-> serverId.v,
                     server_name |-> Nullish(toString(Get(entry, "name")),
                                             toString(Get(entry, "server_name"))),
                     host |-> toString(Get(entry, "host")),
                     enabled |-> Nullish(toBoolean(Get(entry, "enabled")), Bool(TRUE)).v,
                     tags |-> toStringArray(Get(entry, "tags"))] >>

RECURSIVE ParseApiEntries(_)
ParseApiEntries(s) ==
    IF s = <<>> THEN <<>> ELSE ParseApiEntry(Head(s)) \o ParseApiEntries(Tail(s))

parseApiServerList(value) ==
    IF ~isRecord(value) THEN <<>>
    ELSE LET list == Get(value, "servers")
         IN IF list.t # "array" THEN <<>> ELSE ParseApiEntries(list.v)

-----------------------------------------------------------------------------
(* Data reconciler.                                                        *)

\* item.stats?.f
StatOf(stats, f) == IF stats = Undefined THEN Undefined ELSE stats[f]

\* prevMap.get(id): new Map(prev.map(...)) keeps the last entry of an id
RECURSIVE MapGet(_, _)
MapGet(prev, id) ==
    IF prev = <<>> THEN Undefined
    ELSE IF prev[Len(prev)].id = id THEN prev[Len(prev)]
    ELSE MapGet(SubSeq(prev, 1, Len(prev) - 1), id)

\* MapIncoming without the carry-forward: every entry starts afresh
MapIncomingFresh(prev, incoming) ==
    [i \in 1..Len(incoming) |->
        LET item == incoming[i]
        IN [id |-> item.server_id,
            name |-> OrElse(item.server_name, OrElse(item.host, Str(item.server_id))).v,
            host |-> OrElse(item.host, Str("--")).v,
            enabled |-> item.enabled,
            tags |-> item.tags,
            stats |-> Undefined,
            lastUpdate |-> Undefined]]

\* MapIncoming carrying the stats forward but not their time
MapIncomingDropsTime(prev, incoming) ==
    [i \in 1..Len(incoming) |->
        LET item == incoming[i]
            existing == MapGet(prev, item.server_id)
        IN [id |-> item.server_id,
            name |-> OrElse(item.server_name, OrElse(item.host, Str(item.server_id))).v,
            host |-> OrElse(item.host, Str("--")).v,
            enabled |-> item.enabled,
            tags |-> item.tags,
            stats |-> IF existing = Undefined THEN Undefined ELSE existing.stats,
            lastUpdate |-> Undefined]]

\* MapIncoming stamping every surviving entry with the time of the snapshot
MapIncomingRestamps(prev, incoming) ==
    [i \in 1..Len(incoming) |->
        LET item == incoming[i]
            existing == MapGet(prev, item.server_id)
        IN [id |-> item.server_id,
            name |-> OrElse(item.server_name, OrElse(item.host, Str(item.server_id))).v,
            host |-> OrElse(item.host, Str("--")).v,
            enabled |-> item.enabled,
            tags |-> item.tags,
            stats |-> IF existing = Undefined THEN Undefined ELSE existing.stats,
            lastUpdate |-> IF existing = Undefined \/ existing.lastUpdate = Undefined
                           THEN Undefined ELSE Num(clock)]]

\* the updater passed to setServers by applyServerList
MapIncoming(prev, incoming) ==
    [i \in 1..Len(incoming) |->
        LET item == incoming[i]
            existing == MapGet(prev, item.server_id)
        IN [id |-> item.server_id,
            name |-> OrElse(item.server_name, OrElse(item.host, Str(item.server_id))).v,
            host |-> OrElse(item.host, Str("--")).v,
            enabled |-> item.enabled,
            tags |-> item.tags,
            stats |-> IF existing = Undefined THEN Undefined ELSE existing.stats,
            lastUpdate |-> IF existing = Undefined THEN Undefined ELSE existing.lastUpdate]]

\* the registry after applyServerList(incoming)
applyServerList(prev, incoming) ==
    IF Len(incoming) = 0 THEN prev ELSE MapIncoming(prev, incoming)

\* the frames the incoming.forEach(sendMessage) of applyServerList hands to sendMessage
RECURSIVE SubscribeAll(_)
SubscribeFirst(incoming) ==
    IF incoming = <<>> THEN <<>>
    ELSE <<[type |-> "server:subscribe", server_id |-> Head(incoming).server_id]>>

SubscribeAll(incoming) ==
    IF incoming = <<>> THEN <<>>
    ELSE <<[type |-> "server:subscribe", server_id |-> Head(incoming).server_id]>>
         \o SubscribeAll(Tail(incoming))

\* sendMessage without the readyState test
sendMessageAnyState(ready, frames) == frames

\* sendMessage: transmits only on an open socket
sendMessage(ready, frames) == IF ready = "OPEN" THEN frames ELSE <<>>

\* updateMap.get(id): new Map(updates.map(...)) keeps the last update of an id
RECURSIVE UpdateGet(_, _)
UpdateGet(updates, id) ==
    IF updates = <<>> THEN Undefined
    ELSE IF updates[Len(updates)].server_id = id THEN updates[Len(updates)]
    ELSE UpdateGet(SubSeq(updates, 1, Len(updates) - 1), id)

\* MergeStats taking cpuUsage from the payload alone
MergeStatsCpuFromPayload(stats, payload) ==
    [error |-> Nullish(payload.error, Null),
     cpuUsage |-> payload.cpuUsage,
     memoryTotal |-> Nullish(payload.memoryTotal, StatOf(stats, "memoryTotal")),
     memoryUsed |-> Nullish(payload.memoryUsed, StatOf(stats, "memoryUsed")),
     diskTotal |-> Nullish(payload.diskTotal, StatOf(stats, "diskTotal")),
     diskUsed |-> Nullish(payload.diskUsed, StatOf(stats, "diskUsed")),
     uptime |-> Nullish(payload.uptime, StatOf(stats, "uptime")),
     pm2Procs |-> Nullish(payload.pm2Procs, StatOf(stats, "pm2Procs")),
     pm2Mem |-> Nullish(payload.pm2Mem, StatOf(stats, "pm2Mem")),
     pm2BadCount |-> Nullish(payload.pm2BadCount, StatOf(stats, "pm2BadCount")),
     pm2BadNames |-> Nullish(payload.pm2BadNames, StatOf(stats, "pm2BadNames")),
     supervisorTotal |-> Nullish(payload.supervisorTotal, StatOf(stats, "supervisorTotal")),
     supervisorRunning |-> Nullish(payload.supervisorRunning, StatOf(stats, "supervisorRunning"))]

\* the stats object applyServerUpdates builds for an entry that has a payload
MergeStats(stats, payload) ==
    [error |-> Nullish(payload.error, Null),
     cpuUsage |-> Nullish(payload.cpuUsage, StatOf(stats, "cpuUsage")),
     memoryTotal |-> Nullish(payload.memoryTotal, StatOf(stats, "memoryTotal")),
     memoryUsed |-> Nullish(payload.memoryUsed, StatOf(stats, "memoryUsed")),
     diskTotal |-> Nullish(payload.diskTotal, StatOf(stats, "diskTotal")),
     diskUsed |-> Nullish(payload.diskUsed, StatOf(stats, "diskUsed")),
     uptime |-> Nullish(payload.uptime, StatOf(stats, "uptime")),
     pm2Procs |-> Nullish(payload.pm2Procs, StatOf(stats, "pm2Procs")),
     pm2Mem |-> Nullish(payload.pm2Mem, StatOf(stats, "pm2Mem")),
     pm2BadCount |-> Nullish(payload.pm2BadCount, StatOf(stats, "pm2BadCount")),
     pm2BadNames |-> Nullish(payload.pm2BadNames, StatOf(stats, "pm2BadNames")),
     supervisorTotal |-> Nullish(payload.supervisorTotal, StatOf(stats, "supervisorTotal")),
     supervisorRunning |-> Nullish(payload.supervisorRunning, StatOf(stats, "supervisorRunning"))]

\* the registry after applyServerUpdates(updates) at Date.now() = timestamp
applyServerUpdates(prev, updates, timestamp) ==
    IF Len(updates) = 0 THEN prev
    ELSE [i \in 1..Len(prev) |->
            LET item == prev[i]
                payload == UpdateGet(updates, item.id)
            IN IF payload = Undefined THEN item
               ELSE [item EXCEPT !.stats = MergeStats(item.stats, payload),
                                 !.lastUpdate = Num(timestamp)]]

\* {error: payload.error || 'Server error'}, without the spread of item.stats
ErrorStatsAlone(stats, payload) ==
    [f \in {"error", "cpuUsage", "memoryTotal", "memoryUsed", "diskTotal", "diskUsed",
             "uptime", "pm2Procs", "pm2Mem", "pm2BadCount", "pm2BadNames",
             "supervisorTotal", "supervisorRunning"} |->
        IF f = "error" THEN OrElse(payload.error, Str("Server error")) ELSE Undefined]

\* {...item.stats, error: payload.error || 'Server error'}
ErrorStats(stats, payload) ==
    [error |-> OrElse(payload.error, Str("Server error")),
     cpuUsage |-> StatOf(stats, "cpuUsage"),
     memoryTotal |-> StatOf(stats, "memoryTotal"),
     memoryUsed |-> StatOf(stats, "memoryUsed"),
     diskTotal |-> StatOf(stats, "diskTotal"),
     diskUsed |-> StatOf(stats, "diskUsed"),
     uptime |-> StatOf(stats, "uptime"),
     pm2Procs |-> StatOf(stats, "pm2Procs"),
     pm2Mem |-> StatOf(stats, "pm2Mem"),
     pm2BadCount |-> StatOf(stats, "pm2BadCount"),
     pm2BadNames |-> StatOf(stats, "pm2BadNames"),
     supervisorTotal |-> StatOf(stats, "supervisorTotal"),
     supervisorRunning |-> StatOf(stats, "supervisorRunning")]

\* applyServerError creating an entry for an id the registry does not hold
applyServerErrorUpsert(prev, payload, timestamp) ==
    IF \E i \in 1..Len(prev) : prev[i].id = payload.server_id
    THEN [i \in 1..Len(prev) |->
            LET item == prev[i]
            IN IF item.id = payload.server_id
               THEN [item EXCEPT !.stats = ErrorStats(item.stats, payload),
                                 !.lastUpdate = Num(timestamp)]
               ELSE item]
    ELSE Append(prev, [id |-> payload.server_id, name |-> payload.server_id, host |-> "--",
                       enabled |-> TRUE, tags |-> <<>>,
                       stats |-> ErrorStats(Undefined, payload),
                       lastUpdate |-> Num(timestamp)])

\* the registry after applyServerError(payload) at Date.now() = timestamp
applyServerError(prev, payload, timestamp) ==
    [i \in 1..Len(prev) |->
        LET item == prev[i]
        IN IF item.id = payload.server_id
           THEN [item EXCEPT !.stats = ErrorStats(item.stats, payload),
                             !.lastUpdate = Num(timestamp)]
           ELSE item]

-----------------------------------------------------------------------------
(* Status and alert evaluator.  A percentage is the fraction n/d, d > 0,   *)
(* so that no rounding enters the comparisons with the thresholds.         *)

Frac(n, d) == [n |-> n, d |-> d]
FracGT(f, k) == f.n > k * f.d
FracGE(f, k) == f.n >= k * f.d

\* percent(part, total), undefined as <<>>, for byte counts >= 0
percent(part, total) ==
    IF part.t \in {"undefined", "null"} \/ total.t \in {"undefined", "null"} THEN <<>>
    ELSE IF total.v = 0 THEN <<>>
    ELSE LET raw == Frac(part.v * 100, total.v)
         IN IF FracGT(raw, 100) THEN <<Frac(100, 1)>>
            ELSE IF raw.n < 0 THEN <<Frac(0, 1)>>
            ELSE <<raw>>

\* percent(...) ?? 0
PercentOrZero(part, total) ==
    LET p == percent(part, total) IN IF p = <<>> THEN Frac(0, 1) ELSE p[1]

\* server.lastUpdate ? now - server.lastUpdate : Infinity  (Infinity as <<>>)
AgeOf(server, at) ==
    IF Truthy(server.lastUpdate) THEN <<at - server.lastUpdate.v>> ELSE <<>>

AgeOver(age, limit) == age = <<>> \/ age[1] > limit

\* getStatus with the error check moved in front of the enabled check
getStatusErrorFirst(server, at) ==
    IF server.stats # Undefined /\ Truthy(server.stats.error) THEN "down"
    ELSE IF ~server.enabled THEN "disabled"
    ELSE IF server.stats = Undefined THEN "idle"
    ELSE IF AgeOver(AgeOf(server, at), STALE_MS) THEN "stale"
    ELSE LET memPercent == PercentOrZero(server.stats.memoryUsed, server.stats.memoryTotal)
             diskPercent == PercentOrZero(server.stats.diskUsed, server.stats.diskTotal)
             cpu == Nullish(server.stats.cpuUsage, Num(0)).v
         IN IF cpu > WARN_CPU \/ FracGT(memPercent, WARN_MEMORY) \/ FracGT(diskPercent, WARN_DISK)
            THEN "warn"
            ELSE "ok"

getStatus(server, at) ==
    IF ~server.enabled THEN "disabled"
    ELSE IF server.stats = Undefined THEN "idle"
    ELSE IF Truthy(server.stats.error) THEN "down"
    ELSE IF AgeOver(AgeOf(server, at), STALE_MS) THEN "stale"
    ELSE LET memPercent == PercentOrZero(server.stats.memoryUsed, server.stats.memoryTotal)
             diskPercent == PercentOrZero(server.stats.diskUsed, server.stats.diskTotal)
             cpu == Nullish(server.stats.cpuUsage, Num(0)).v
         IN IF cpu > WARN_CPU \/ FracGT(memPercent, WARN_MEMORY) \/ FracGT(diskPercent, WARN_DISK)
            THEN "warn"
            ELSE "ok"

\* shouldAlert with the cpu threshold exclusive
shouldAlertAboveCpu(server, at) ==
    IF ~server.enabled THEN FALSE
    ELSE IF server.stats = Undefined THEN FALSE
    ELSE IF Truthy(server.stats.error) THEN TRUE
    ELSE IF AgeOver(AgeOf(server, at), ALERT_STALE_MS) THEN TRUE
    ELSE LET memPercent == PercentOrZero(server.stats.memoryUsed, server.stats.memoryTotal)
             diskPercent == PercentOrZero(server.stats.diskUsed, server.stats.diskTotal)
             cpu == Nullish(server.stats.cpuUsage, Num(0)).v
             pm2Bad == Nullish(server.stats.pm2BadCount, Num(0)).v > 0
         IN cpu > ALERT_CPU \/ FracGE(memPercent, ALERT_MEMORY)
            \/ FracGE(diskPercent, ALERT_DISK) \/ pm2Bad

\* shouldAlert with the cpu alert taken at the warn threshold
shouldAlertAtWarnCpu(server, at) ==
    IF ~server.enabled THEN FALSE
    ELSE IF server.stats = Undefined THEN FALSE
    ELSE IF Truthy(server.stats.error) THEN TRUE
    ELSE IF AgeOver(AgeOf(server, at), ALERT_STALE_MS) THEN TRUE
    ELSE LET memPercent == PercentOrZero(server.stats.memoryUsed, server.stats.memoryTotal)
             diskPercent == PercentOrZero(server.stats.diskUsed, server.stats.diskTotal)
             cpu == Nullish(server.stats.cpuUsage, Num(0)).v
             pm2Bad == Nullish(server.stats.pm2BadCount, Num(0)).v > 0
         IN cpu >= WARN_CPU \/ FracGE(memPercent, ALERT_MEMORY)
            \/ FracGE(diskPercent, ALERT_DISK) \/ pm2Bad

shouldAlert(server, at) ==
    IF ~server.enabled THEN FALSE
    ELSE IF server.stats = Undefined THEN FALSE
    ELSE IF Truthy(server.stats.error) THEN TRUE
    ELSE IF AgeOver(AgeOf(server, at), ALERT_STALE_MS) THEN TRUE
    ELSE LET memPercent == PercentOrZero(server.stats.memoryUsed, server.stats.memoryTotal)
             diskPercent == PercentOrZero(server.stats.diskUsed, server.stats.diskTotal)
             cpu == Nullish(server.stats.cpuUsage, Num(0)).v
             pm2Bad == Nullish(server.stats.pm2BadCount, Num(0)).v > 0
         IN cpu >= ALERT_CPU \/ FracGE(memPercent, ALERT_MEMORY)
            \/ FracGE(diskPercent, ALERT_DISK) \/ pm2Bad

-----------------------------------------------------------------------------
(* Inputs: what the two channels may deliver.                              *)

BoundedSeq(S, n) == UNION {[1..k -> S] : k \in 0..n}

Ids == {"a", "b"}

\* one element of a "servers" array, as JSON
RawEntry(id, server_id, name, server_name, host, enabled, tags) ==
    Obj([id |-> id, server_id |-> server_id, name |-> name, server_name |-> server_name,
         host |-> host, enabled |-> enabled, tags |-> tags])

\* the "servers" entries of a list:update frame
RawEntries ==
    { RawEntry(Undefined, Str("a"), Undefined, Str("web"), Str("h1"), Bool(FALSE),
               Arr(<<Str("t"), Num(7)>>)),
      RawEntry(Undefined, Str("b"), Undefined, Undefined, Str("h2"), Undefined, Str("x")),
      RawEntry(Str("c"), Str(""), Undefined, Str("ghost"), Undefined, Undefined, Undefined) }

\* the "servers" entries of a GET /servers response
ApiEntries ==
    { RawEntry(Str("a"), Str("z"), Str("web"), Str("old"), Str("h1"), Bool(FALSE),
               Arr(<<Str("t")>>)),
      RawEntry(Undefined, Str("b"), Undefined, Undefined, Str("h2"), Num(0), Undefined),
      Num(1) }

\* payload.servers of a list:update frame
PushListValues == {Arr(l) : l \in BoundedSeq(RawEntries, MaxList)} \cup {Str("none")}

\* the body of a GET /servers response
ApiListValues ==
    {Obj([servers |-> Arr(l)]) : l \in BoundedSeq(ApiEntries, MaxList)}
    \cup {Obj([servers |-> Null]), Str("<html>")}

NoFields ==
    [error |-> Null, cpuUsage |-> Undefined, memoryTotal |-> Undefined,
     memoryUsed |-> Undefined, diskTotal |-> Undefined, diskUsed |-> Undefined,
     uptime |-> Undefined, pm2Procs |-> Undefined, pm2Mem |-> Undefined,
     pm2BadCount |-> Undefined, pm2BadNames |-> Undefined,
     supervisorTotal |-> Undefined, supervisorRunning |-> Undefined]

\* the partial records the stats parsers hand over, without their server_id
MemoryOnly == [NoFields EXCEPT !.memoryUsed = Num(100), !.memoryTotal = Num(200)]
ErrorOnly == [NoFields EXCEPT !.error = Str("boom")]
AllFields ==
    [error |-> Null, cpuUsage |-> Num(40), memoryTotal |-> Num(128),
     memoryUsed |-> Num(64), diskTotal |-> Num(100), diskUsed |-> Num(10),
     uptime |-> Str("3d"), pm2Procs |-> Num(2), pm2Mem |-> Num(512),
     pm2BadCount |-> Num(1), pm2BadNames |-> Arr(<<"api">>),
     supervisorTotal |-> Num(3), supervisorRunning |-> Num(2)]

WithId(id, fields) == [server_id |-> id] @@ fields

\* what parseStatsList returns
StatsUpdates == {WithId("a", MemoryOnly), WithId("a", AllFields), WithId("b", AllFields)}
StatsBatches == BoundedSeq(StatsUpdates, MaxList)

\* what parseServerUpdate returns: a record, or null
PushUpdates == StatsUpdates \cup {WithId("a", ErrorOnly), Null}

\* the inputs of the runs in which time passes and the connection opens and closes
TimedA == RawEntry(Str("a"), Str("a"), Undefined, Undefined, Undefined, Undefined, Undefined)
TimedB == RawEntry(Str("b"), Str("b"), Undefined, Undefined, Str("h2"), Undefined, Undefined)
TimedLists == {<<>>, <<TimedA>>, <<TimedB>>, <<TimedA, TimedB>>}
TimedPushLists == {Arr(l) : l \in TimedLists}
TimedApiLists == {Obj([servers |-> Arr(l)]) : l \in TimedLists}
TimedUpdates == {WithId("a", AllFields)}
TimedBatches == {<<>>, <<WithId("a", AllFields)>>}
TimedErrors == {Obj([server_id |-> Str("a"), error |-> Str("boom")])}

\* a server:error frame, as JSON
ErrorFrames ==
    { Obj([server_id |-> Str("a"), error |-> Undefined]),
      Obj([server_id |-> Str("a"), error |-> Str("")]),
      Obj([server_id |-> Str("b"), error |-> Str("boom")]),
      Obj([server_id |-> Num(7), error |-> Str("boom")]) }

parseServerError(value) ==
    IF ~isRecord(value) THEN Null
    ELSE LET serverId == toString(Get(value, "server_id"))
         IN IF ~Truthy(serverId) THEN Null
            ELSE [server_id |-> serverId.v, error |-> toString(Get(value, "error"))]

-----------------------------------------------------------------------------
(* The state machine.                                                      *)

\* the event of the last step: its kind, the list snapshot it parsed, and the
\* ids its updates or error address (for a close event, the close code)
Event(kind, incoming, ids) == [kind |-> kind, incoming |-> incoming, ids |-> ids]

Plain(kind) == Event(kind, <<>>, {})

HasId(list, id) == \E i \in 1..Len(list) : list[i].id = id

IdsOfUpdates(updates) == {updates[i].server_id : i \in 1..Len(updates)}

\* touched after a list snapshot: an id that left the registry starts afresh
Forget(list) == [id \in Ids |-> IF HasId(list, id) THEN touched[id] ELSE Undefined]

\* touched after an update or error for ids: those in the registry are stamped
Touch(ids) ==
    [id \in Ids |-> IF id \in ids /\ HasId(servers, id) THEN Num(clock) ELSE touched[id]]

Init ==
    /\ servers = <<>>
    /\ clock = StartClock
    /\ now = StartClock
    /\ connectionState = "connecting"
    /\ lastMessageAt = Null
    /\ wsReady = "CONNECTING"
    /\ backoff = BACKOFF_FLOOR
    /\ reconnectTimer = FALSE
    /\ listRefreshTimer = FALSE
    /\ shouldReconnect = TRUE
    /\ sockets = 1
    /\ liveOthers = 0
    /\ orphanTimers = 0
    /\ cards = <<>>
    /\ pm2ToastRef = [id \in Ids |-> Undefined]
    /\ gridSize = [width |-> 0, height |-> 0]
    /\ pageIndex = 0
    /\ toasts = <<>>
    /\ toastLog = [id \in Ids |-> Undefined]
    /\ sent = <<>>
    /\ op = Plain("mount")
    /\ touched = [id \in Ids |-> Undefined]

\* time passes, step by step
AdvanceBy(step) ==
    /\ clock < StartClock + MaxTicks * step
    /\ clock' = clock + step
    /\ sent' = <<>>
    /\ op' = Plain("clock")
    /\ UNCHANGED <<servers, now, lastMessageAt, connVars, cards, viewVars, touched>>

AdvanceClock == AdvanceBy(TimeStep)

\* setInterval(() => setNow(Date.now()), 1000)
TickNow ==
    /\ now # clock
    /\ now' = clock
    /\ sent' = <<>>
    /\ op' = Plain("tick")
    /\ UNCHANGED <<servers, clock, lastMessageAt, connVars, cards, viewVars, touched>>

\* handleMessage on a list:update frame, replacing the registry whatever the list holds
ListUpdateUnguarded(prev, list) == MapIncoming(prev, list)

\* handleMessage on a list:update frame: the registry it leaves
ListUpdateResult(prev, list) ==
    IF Len(list) > 0 THEN applyServerList(prev, list) ELSE prev

\* handleMessage on a list:update frame
HandleListUpdate(value) ==
    LET list == parseServerList(value)
    IN /\ servers' = ListUpdateResult(servers, list)
       /\ sent' = IF Len(list) > 0 THEN sendMessage(wsReady, SubscribeAll(list)) ELSE <<>>
       /\ op' = Event("list:update", list, {})
       /\ touched' = Forget(ListUpdateResult(servers, list))

\* handleMessage on a server:update frame
HandleServerUpdate(update) ==
    LET updates == IF update = Null THEN <<>> ELSE <<update>>
    IN /\ servers' = IF update # Null THEN applyServerUpdates(servers, updates, clock)
                     ELSE servers
       /\ sent' = <<>>
       /\ op' = Event("server:update", <<>>, IdsOfUpdates(updates))
       /\ touched' = Touch(IdsOfUpdates(updates))

\* handleMessage on a server:error frame; the event keeps the parsed error (history)
HandleServerError(value) ==
    LET error == parseServerError(value)
    IN /\ servers' = IF error # Null THEN applyServerError(servers, error, clock) ELSE servers
       /\ sent' = <<>>
       /\ op' = Event("server:error", IF error # Null THEN <<error>> ELSE <<>>,
                      IF error # Null THEN {error.server_id} ELSE {})
       /\ touched' = IF error # Null THEN Touch({error.server_id}) ELSE touched

\* a discarded frame emptying the registry
HandleOtherResets ==
    /\ servers' = <<>>
    /\ sent' = <<>>
    /\ op' = Plain("discarded")
    /\ touched' = touched

\* handleMessage on a frame that is no JSON, no object, or of an unknown type
HandleOther ==
    /\ servers' = servers
    /\ sent' = <<>>
    /\ op' = Plain("discarded")
    /\ touched' = touched

\* ws.onmessage
OnMessage(listValues, updates, errorFrames) ==
    /\ wsReady = "OPEN"
    /\ lastMessageAt' = Num(clock)
    /\ \/ \E value \in listValues : HandleListUpdate(value)
       \/ \E update \in updates : HandleServerUpdate(update)
       \/ \E value \in errorFrames : HandleServerError(value)
       \/ HandleOther
    /\ UNCHANGED <<clock, now, connVars, cards, viewVars>>

\* fetchServers: the registry it leaves
FetchServersResult(prev, list) ==
    IF Len(list) > 0 THEN applyServerList(prev, list) ELSE prev

\* fetchServers, when its request completes
FetchServersDone(bodies) ==
    \E data \in bodies :
        LET list == parseApiServerList(data)
        IN /\ servers' = FetchServersResult(servers, list)
           /\ sent' = IF Len(list) > 0 THEN sendMessage(wsReady, SubscribeAll(list)) ELSE <<>>
           /\ op' = Event("GET /servers", list, {})
           /\ touched' = Forget(FetchServersResult(servers, list))
           /\ UNCHANGED <<clock, now, lastMessageAt, connVars, cards, viewVars>>

\* fetchStats, when its request completes
FetchStatsDone(batches) ==
    \E updates \in batches :
        /\ servers' = IF Len(updates) > 0 THEN applyServerUpdates(servers, updates, clock)
                      ELSE servers
        /\ sent' = <<>>
        /\ op' = Event("GET /stats", <<>>, IdsOfUpdates(updates))
        /\ touched' = Touch(IdsOfUpdates(updates))
        /\ UNCHANGED <<clock, now, lastMessageAt, connVars, cards, viewVars>>

\* fetchServers or fetchStats, when its request fails
FetchFailed ==
    /\ sent' = <<>>
    /\ op' = Plain("fetch:failed")
    /\ UNCHANGED <<servers, clock, now, lastMessageAt, connVars, cards, viewVars, touched>>

\* ws.onopen without the reset of the backoff
OnOpenKeepsBackoff ==
    /\ wsReady = "CONNECTING"
    /\ wsReady' = "OPEN"
    /\ connectionState' = "open"
    /\ backoff' = backoff
    /\ sent' = sendMessage("OPEN", <<[type |-> "list:subscribe"]>>)
    /\ listRefreshTimer' = TRUE
    /\ op' = Plain("open")
    /\ UNCHANGED <<servers, clock, now, lastMessageAt, reconnectTimer, shouldReconnect,
                   sockets, liveOthers, orphanTimers, cards, viewVars, touched>>

\* ws.onopen
OnOpen ==
    /\ wsReady = "CONNECTING"
    /\ wsReady' = "OPEN"
    /\ connectionState' = "open"
    /\ backoff' = BACKOFF_FLOOR
    /\ sent' = sendMessage("OPEN", <<[type |-> "list:subscribe"]>>)
    /\ listRefreshTimer' = TRUE
    /\ op' = Plain("open")
    /\ UNCHANGED <<servers, clock, now, lastMessageAt, reconnectTimer, shouldReconnect,
                   sockets, liveOthers, orphanTimers, cards, viewVars, touched>>

\* ws.onerror: the state becomes 'error' and ws.close() starts the closing handshake
OnError ==
    /\ wsReady \in {"CONNECTING", "OPEN"}
    /\ connectionState' = "error"
    /\ wsReady' = "CLOSING"
    /\ sent' = <<>>
    /\ op' = Plain("error")
    /\ UNCHANGED <<servers, clock, now, lastMessageAt, backoff, reconnectTimer,
                   listRefreshTimer, shouldReconnect, sockets,
                   liveOthers, orphanTimers, cards, viewVars, touched>>

Min(a, b) == IF a < b THEN a ELSE b

\* ws.onclose, as it would be without the shouldReconnect test
OnCloseReconnectsAlways(code) ==
    /\ wsReady \in {"CONNECTING", "OPEN", "CLOSING"}
    /\ wsReady' = "CLOSED"
    /\ listRefreshTimer' = FALSE
    /\ connectionState' = "closed"
    /\ IF code # NORMAL_CLOSURE
       THEN /\ reconnectTimer' = TRUE
            /\ orphanTimers' = IF reconnectTimer THEN orphanTimers + 1 ELSE orphanTimers
            /\ backoff' = Min((backoff * 16) \div 10, BACKOFF_CEILING)
            /\ op' = Event("close", <<backoff>>, {code})
       ELSE /\ UNCHANGED <<reconnectTimer, orphanTimers, backoff>>
            /\ op' = Event("close", <<>>, {code})
    /\ sent' = <<>>
    /\ UNCHANGED <<servers, clock, now, lastMessageAt, shouldReconnect, sockets,
                   liveOthers, cards, viewVars, touched>>

\* ws.onclose, as it would be if the backoff grew before the timeout is set
OnCloseGrowsFirst(code) ==
    /\ wsReady \in {"CONNECTING", "OPEN", "CLOSING"}
    /\ wsReady' = "CLOSED"
    /\ listRefreshTimer' = FALSE
    /\ connectionState' = "closed"
    /\ IF shouldReconnect /\ code # NORMAL_CLOSURE
       THEN /\ reconnectTimer' = TRUE
            /\ orphanTimers' = IF reconnectTimer THEN orphanTimers + 1 ELSE orphanTimers
            /\ backoff' = Min((backoff * 16) \div 10, BACKOFF_CEILING)
            /\ op' = Event("close", <<Min((backoff * 16) \div 10, BACKOFF_CEILING)>>, {code})
       ELSE /\ UNCHANGED <<reconnectTimer, orphanTimers, backoff>>
            /\ op' = Event("close", <<>>, {code})
    /\ sent' = <<>>
    /\ UNCHANGED <<servers, clock, now, lastMessageAt, shouldReconnect, sockets,
                   liveOthers, cards, viewVars, touched>>

\* ws.onclose; the event keeps the delay of the timeout it set (history)
OnClose(code) ==
    /\ wsReady \in {"CONNECTING", "OPEN", "CLOSING"}
    /\ wsReady' = "CLOSED"
    /\ listRefreshTimer' = FALSE
    /\ connectionState' = "closed"
    /\ IF shouldReconnect /\ code # NORMAL_CLOSURE
       THEN /\ reconnectTimer' = TRUE
            /\ orphanTimers' = IF reconnectTimer THEN orphanTimers + 1 ELSE orphanTimers
            /\ backoff' = Min((backoff * 16) \div 10, BACKOFF_CEILING)
            /\ op' = Event("close", <<backoff>>, {code})
       ELSE /\ UNCHANGED <<reconnectTimer, orphanTimers, backoff>>
            /\ op' = Event("close", <<>>, {code})
    /\ sent' = <<>>
    /\ UNCHANGED <<servers, clock, now, lastMessageAt, shouldReconnect, sockets,
                   liveOthers, cards, viewVars, touched>>

\* the sockets other than wsRef.current that are CONNECTING or OPEN, once connect
\* has put a new socket into wsRef.current
OthersAfterConnect ==
    IF wsReady \in {"CONNECTING", "OPEN"} THEN liveOthers + 1 ELSE liveOthers

\* connect run by a timer that stays armed, as an interval would
ConnectRepeating(limit) ==
    /\ reconnectTimer
    /\ sockets < limit
    /\ reconnectTimer' = reconnectTimer
    /\ connectionState' = "connecting"
    /\ wsReady' = "CONNECTING"
    /\ sockets' = sockets + 1
    /\ liveOthers' = OthersAfterConnect
    /\ sent' = <<>>
    /\ op' = Plain("connect")
    /\ UNCHANGED <<servers, clock, now, lastMessageAt, backoff, listRefreshTimer,
                   shouldReconnect, orphanTimers, cards, viewVars, touched>>

\* connect, run by the reconnect timeout, while fewer than limit sockets exist
ConnectWithin(limit) ==
    /\ reconnectTimer
    /\ sockets < limit
    /\ reconnectTimer' = FALSE
    /\ connectionState' = "connecting"
    /\ wsReady' = "CONNECTING"
    /\ sockets' = sockets + 1
    /\ liveOthers' = OthersAfterConnect
    /\ sent' = <<>>
    /\ op' = Plain("connect")
    /\ UNCHANGED <<servers, clock, now, lastMessageAt, backoff, listRefreshTimer,
                   shouldReconnect, orphanTimers, cards, viewVars, touched>>

Connect == ConnectWithin(MaxSockets)

\* The reconciler under every modelled input, at one instant, on one socket.
Next ==
    \/ OnOpen
    \/ OnMessage(PushListValues, PushUpdates, ErrorFrames)
    \/ FetchServersDone(ApiListValues)
    \/ FetchStatsDone(StatsBatches)
    \/ FetchFailed

Spec == Init /\ [][Next]_vars

\* The reconciler while time passes, the rendering clock ticks and the
\* connection opens and closes.
NextTimed ==
    \/ AdvanceClock
    \/ TickNow
    \/ OnOpen
    \/ OnError
    \/ \E code \in {NORMAL_CLOSURE, ABNORMAL_CLOSURE} : OnClose(code)
    \/ Connect
    \/ OnMessage(TimedPushLists, TimedUpdates, TimedErrors)
    \/ FetchServersDone(TimedApiLists)
    \/ FetchStatsDone(TimedBatches)
    \/ FetchFailed

SpecTimed == Init /\ [][NextTimed]_vars

-----------------------------------------------------------------------------
(* Claims about the data reconciler.                                       *)

MetricFields ==
    {"cpuUsage", "memoryTotal", "memoryUsed", "diskTotal", "diskUsed", "uptime",
     "pm2Procs", "pm2Mem", "pm2BadCount", "pm2BadNames", "supervisorTotal",
     "supervisorRunning"}

Absent(x) == x.t \in {"undefined", "null"}

SameValue(x, y) == (Absent(x) /\ Absent(y)) \/ x = y

\* every non-empty batch of updates either channel may deliver
AnyUpdates == {<<u>> : u \in PushUpdates \ {Null}} \cup (StatsBatches \ {<<>>})

\* in every state, whatever updates arrive next, an entry they address keeps the
\* value of each of the fields that its update lacks
KeepsAbsent(fields) ==
    \A updates \in AnyUpdates :
        LET next == applyServerUpdates(servers, updates, clock)
        IN \A i \in 1..Len(servers) :
              LET payload == UpdateGet(updates, servers[i].id)
              IN payload # Undefined =>
                    \A f \in fields :
                        Absent(payload[f]) =>
                            SameValue(next[i].stats[f], StatOf(servers[i].stats, f))

(* C1, as claimed: an update that lacks a stats field leaves that field of the
   entry as it was, for every stats field, error included. *)
C1_AbsentFieldKept == KeepsAbsent(MetricFields \cup {"error"})

(* C1, amended: an update that lacks a stats field other than error leaves that
   field of the entry as it was; an update that carries no error sets the
   entry's error to null. *)
C1_AbsentMetricKept ==
    /\ KeepsAbsent(MetricFields)
    /\ \A updates \in AnyUpdates :
          LET next == applyServerUpdates(servers, updates, clock)
          IN \A i \in 1..Len(servers) :
                LET payload == UpdateGet(updates, servers[i].id)
                IN payload # Undefined /\ Absent(payload.error) =>
                      next[i].stats.error = Null

\* an update with memory fields only has reached an entry that had a cpu value,
\* and the cpu value is still there
C1_Witness ==
    /\ op.kind \in {"server:update", "GET /stats"}
    /\ \E i \in 1..Len(servers) :
          /\ servers[i].id \in op.ids
          /\ servers[i].stats # Undefined
          /\ servers[i].stats.cpuUsage = Num(40)
          /\ servers[i].stats.memoryUsed = Num(100)
          /\ servers[i].stats.memoryTotal = Num(200)

ListKinds == {"list:update", "GET /servers"}

UpdateKinds == {"server:update", "GET /stats", "server:error"}

(* C2: after a non-empty list snapshot the registry holds exactly the
   snapshot's ids, in the snapshot's order; an id that was in the registry
   carries its stats and lastUpdate, a new id has neither, and an id absent
   from the snapshot is gone. *)
C2_SnapshotCarriesForward ==
    [][ op'.kind \in ListKinds /\ Len(op'.incoming) > 0 =>
          /\ Len(servers') = Len(op'.incoming)
          /\ \A i \in 1..Len(op'.incoming) :
                LET id == op'.incoming[i].server_id
                IN /\ servers'[i].id = id
                   /\ IF HasId(servers, id)
                      THEN \A j \in 1..Len(servers) :
                              servers[j].id = id =>
                                  /\ servers'[i].stats = servers[j].stats
                                  /\ servers'[i].lastUpdate = servers[j].lastUpdate
                      ELSE /\ servers'[i].stats = Undefined
                           /\ servers'[i].lastUpdate = Undefined
          /\ \A id \in Ids :
                HasId(servers', id) <=>
                    \E i \in 1..Len(op'.incoming) : op'.incoming[i].server_id = id
      ]_vars

\* a snapshot of two ids has arrived: one carried its stats, the other is new
C2_Witness ==
    /\ op.kind \in ListKinds
    /\ Len(op.incoming) = 2
    /\ Len(servers) = 2
    /\ servers[1].id # servers[2].id
    /\ servers[1].stats # Undefined
    /\ servers[1].lastUpdate # Undefined
    /\ servers[2].stats = Undefined

(* C3: an empty list snapshot, pushed or polled, leaves the registry as it
   was and sends no subscription. *)
C3_EmptySnapshotNoOp ==
    [][ op'.kind \in ListKinds /\ Len(op'.incoming) = 0 =>
          servers' = servers /\ sent' = <<>> ]_vars

\* an empty list:update has arrived on an open socket while the registry held
\* entries
C3_Witness ==
    /\ op.kind = "list:update"
    /\ op.incoming = <<>>
    /\ wsReady = "OPEN"
    /\ Len(servers) > 0
    /\ sent = <<>>

(* C4: a stats update or an error never changes which entries the registry
   holds, nor an entry's id, name, host, enabled flag or tags; when it
   addresses only ids that are not in the registry, the registry is unchanged. *)
C4_UpdatesKeepMembership ==
    [][ op'.kind \in UpdateKinds =>
          /\ Len(servers') = Len(servers)
          /\ \A i \in 1..Len(servers) :
                /\ servers'[i].id = servers[i].id
                /\ servers'[i].name = servers[i].name
                /\ servers'[i].host = servers[i].host
                /\ servers'[i].enabled = servers[i].enabled
                /\ servers'[i].tags = servers[i].tags
          /\ (\A id \in op'.ids : ~HasId(servers, id)) => servers' = servers
      ]_vars

\* an error for an id that is not in the registry has arrived while the
\* registry held entries
C4_Witness ==
    /\ op.kind = "server:error"
    /\ op.ids # {}
    /\ \A id \in op.ids : ~HasId(servers, id)
    /\ Len(servers) > 0

(* C5, as claimed: no two entries of the registry have the same id. *)
C5_UniqueIds ==
    \A i, j \in 1..Len(servers) : i # j => servers[i].id # servers[j].id

NotLater(x, y) == x = Undefined \/ (y # Undefined /\ x.v <= y.v)

(* C6: while an id stays in the registry its lastUpdate never decreases and
   never goes from set to unset. *)
C6_LastUpdateMonotone ==
    [][ \A i \in 1..Len(servers), j \in 1..Len(servers') :
            servers[i].id = servers'[j].id =>
                NotLater(servers[i].lastUpdate, servers'[j].lastUpdate) ]_vars

\* a list snapshot has arrived after an entry was stamped at a time later than
\* the start, and the entry still has that time
C6_Witness ==
    /\ op.kind \in ListKinds
    /\ \E i \in 1..Len(servers) :
          /\ servers[i].lastUpdate # Undefined
          /\ servers[i].lastUpdate.v > StartClock
          /\ servers[i].lastUpdate.v < clock

\* an enabled entry with stats and no error whose last applied update or error
\* is more than 60000 ms before the rendering clock
LastTouchOld(e) ==
    /\ e.enabled
    /\ e.stats # Undefined
    /\ ~(e.stats.error.t = "string" /\ e.stats.error.v # "")
    /\ touched[e.id] # Undefined
    /\ now - touched[e.id].v > 60000

(* C7: an enabled entry that has stats and no error, and whose last applied
   update or error is more than 60000 ms old, classifies as 'stale'; list
   snapshots, connection changes, discarded frames and failed polls in between
   do not make it younger. *)
C7_OldIsStale ==
    \A i \in 1..Len(servers) :
        LastTouchOld(servers[i]) => getStatus(servers[i], now) = "stale"

\* a list snapshot has arrived on a closed connection and an entry it kept is
\* old and stale
C7_Witness ==
    /\ op.kind \in ListKinds
    /\ Len(op.incoming) > 0
    /\ connectionState = "closed"
    /\ \E i \in 1..Len(servers) :
          /\ LastTouchOld(servers[i])
          /\ getStatus(servers[i], now) = "stale"

-----------------------------------------------------------------------------
(* The evaluator on its own: one entry of any shape, seen at any age.      *)

Pair(a, b) == <<Num(a), Num(b)>>

NoPair == <<Undefined, Undefined>>

\* the stats an entry may hold, around every threshold of the evaluator
EvalStats ==
    { [NoFields EXCEPT !.error = e, !.cpuUsage = c,
                       !.memoryUsed = m[1], !.memoryTotal = m[2],
                       !.diskUsed = d[1], !.diskTotal = d[2],
                       !.pm2BadCount = p] :
        e \in {Null, Str(""), Str("boom")},
        c \in {Undefined, Num(40), Num(85), Num(86), Num(89), Num(90)},
        m \in {NoPair, Pair(5, 0), Pair(90, 100), Pair(91, 100), Pair(92, 100)},
        d \in {NoPair, Pair(92, 100), Pair(93, 100), Pair(94, 100), Pair(95, 100),
               Pair(300, 200)},
        p \in {Undefined, Num(0), Num(1)} }

\* the rendering clock, relative to the entry's lastUpdate
EvalAges == {0 - 1000, 0, STALE_MS, STALE_MS + 1, ALERT_STALE_MS, ALERT_STALE_MS + 1}

EvalEntry(enabled, stats) ==
    [id |-> "a", name |-> "a", host |-> "--", enabled |-> enabled, tags |-> <<>>,
     stats |-> stats,
     lastUpdate |-> IF stats = Undefined THEN Undefined ELSE Num(StartClock)]

InitEval ==
    /\ \E enabled \in BOOLEAN, stats \in EvalStats \cup {Undefined} :
          /\ servers = <<EvalEntry(enabled, stats)>>
          /\ touched = [id \in Ids |-> IF id = "a" /\ stats # Undefined
                                       THEN Num(StartClock) ELSE Undefined]
    /\ \E age \in EvalAges :
          /\ now = StartClock + age
          /\ clock = IF age > 0 THEN StartClock + age ELSE StartClock
    /\ connectionState = "connecting"
    /\ lastMessageAt = Null
    /\ wsReady = "CONNECTING"
    /\ backoff = BACKOFF_FLOOR
    /\ reconnectTimer = FALSE
    /\ listRefreshTimer = FALSE
    /\ shouldReconnect = TRUE
    /\ sockets = 1
    /\ liveOthers = 0
    /\ orphanTimers = 0
    /\ cards = <<>>
    /\ pm2ToastRef = [id \in Ids |-> Undefined]
    /\ gridSize = [width |-> 0, height |-> 0]
    /\ pageIndex = 0
    /\ toasts = <<>>
    /\ toastLog = [id \in Ids |-> Undefined]
    /\ sent = <<>>
    /\ op = Plain("mount")

\* ServerCard, for every entry of the registry
Render ==
    /\ cards' = [i \in 1..Len(servers) |->
                    [status |-> getStatus(servers[i], now),
                     alert |-> shouldAlert(servers[i], now)]]
    /\ sent' = <<>>
    /\ op' = Plain("render")
    /\ UNCHANGED <<servers, clock, now, lastMessageAt, connVars, viewVars, touched>>

SpecEval == InitEval /\ [][Render]_vars

-----------------------------------------------------------------------------
(* The conditions of the evaluator's rules, stated on the entry itself.    *)

Rendered == op.kind = "render"

HasStats(e) == e.stats # Undefined

ErrorSet(e) == HasStats(e) /\ e.stats.error.t = "string" /\ e.stats.error.v # ""

AgeAbove(e, limit) == e.lastUpdate # Undefined /\ now - e.lastUpdate.v > limit

Known(x) == x.t = "number"

CpuOf(e) == IF HasStats(e) /\ Known(e.stats.cpuUsage) THEN e.stats.cpuUsage.v ELSE 0

RatioAbove(used, total, k) ==
    Known(used) /\ Known(total) /\ total.v > 0 /\ used.v * 100 > k * total.v

RatioAtLeast(used, total, k) ==
    Known(used) /\ Known(total) /\ total.v > 0 /\ used.v * 100 >= k * total.v

Hot(e) ==
    \/ CpuOf(e) > 85
    \/ RatioAbove(e.stats.memoryUsed, e.stats.memoryTotal, 90)
    \/ RatioAbove(e.stats.diskUsed, e.stats.diskTotal, 92)

Pm2Bad(e) == HasStats(e) /\ Known(e.stats.pm2BadCount) /\ e.stats.pm2BadCount.v > 0

(* C8: the status of an entry is decided by the first rule that applies, in
   the order disabled, idle (no stats), down (error set), stale (older than
   60000 ms), warn (cpu above 85, memory above 90 percent or disk above 92
   percent), ok. *)
C8_Precedence ==
    Rendered =>
        \A i \in 1..Len(servers) :
            LET e == servers[i]
                key == cards[i].status
            IN /\ ~e.enabled => key = "disabled"
               /\ e.enabled /\ ~HasStats(e) => key = "idle"
               /\ e.enabled /\ HasStats(e) /\ ErrorSet(e) => key = "down"
               /\ e.enabled /\ HasStats(e) /\ ~ErrorSet(e) /\ AgeAbove(e, 60000)
                      => key = "stale"
               /\ e.enabled /\ HasStats(e) /\ ~ErrorSet(e) /\ ~AgeAbove(e, 60000) /\ Hot(e)
                      => key = "warn"
               /\ e.enabled /\ HasStats(e) /\ ~ErrorSet(e) /\ ~AgeAbove(e, 60000) /\ ~Hot(e)
                      => key = "ok"

\* a disabled entry that has an error, is old and is hot has been rendered as
\* 'disabled'
C8_Witness ==
    /\ Rendered
    /\ \E i \in 1..Len(servers) :
          /\ ~servers[i].enabled
          /\ ErrorSet(servers[i])
          /\ AgeAbove(servers[i], 60000)
          /\ Hot(servers[i])
          /\ cards[i].status = "disabled"

(* C9: shouldAlert is true exactly for an enabled entry with stats that has an
   error, or is older than 90000 ms, or has cpu at or above 90, memory at or
   above 92 percent, disk at or above 95 percent, or a positive pm2BadCount;
   an enabled entry without stats is 'idle' and does not alert. *)
C9_AlertExactly ==
    Rendered =>
        \A i \in 1..Len(servers) :
            LET e == servers[i]
            IN /\ cards[i].alert <=>
                     /\ e.enabled
                     /\ HasStats(e)
                     /\ \/ ErrorSet(e)
                        \/ AgeAbove(e, 90000)
                        \/ CpuOf(e) >= 90
                        \/ RatioAtLeast(e.stats.memoryUsed, e.stats.memoryTotal, 92)
                        \/ RatioAtLeast(e.stats.diskUsed, e.stats.diskTotal, 95)
                        \/ Pm2Bad(e)
               /\ e.enabled /\ ~HasStats(e) => cards[i].status = "idle" /\ ~cards[i].alert

\* an enabled entry whose only alerting condition is a cpu of exactly 90 has
\* been rendered with its alert on
C9_Witness ==
    /\ Rendered
    /\ \E i \in 1..Len(servers) :
          /\ servers[i].enabled
          /\ HasStats(servers[i])
          /\ CpuOf(servers[i]) = 90
          /\ ~ErrorSet(servers[i])
          /\ ~AgeAbove(servers[i], 60000)
          /\ ~Pm2Bad(servers[i])
          /\ ~RatioAtLeast(servers[i].stats.memoryUsed, servers[i].stats.memoryTotal, 92)
          /\ ~RatioAtLeast(servers[i].stats.diskUsed, servers[i].stats.diskTotal, 95)
          /\ cards[i].alert

(* C10, as claimed: with the default thresholds, an entry whose status is
   'warn' or 'stale' alerts. *)
C10_WarnOrStaleAlerts ==
    Rendered =>
        \A i \in 1..Len(servers) :
            cards[i].status \in {"warn", "stale"} => cards[i].alert

(* C10, amended: with the default thresholds the implication runs the other
   way: an entry that alerts and whose pm2BadCount is not positive has the
   status 'down', 'stale' or 'warn'; a 'warn' or 'stale' entry need not alert. *)
C10_AlertIsWarnStaleOrDown ==
    Rendered =>
        \A i \in 1..Len(servers) :
            cards[i].alert /\ ~Pm2Bad(servers[i]) =>
                cards[i].status \in {"down", "stale", "warn"}

\* an entry without bad pm2 processes has been rendered as 'warn' with its
\* alert on
C10_Witness ==
    /\ Rendered
    /\ \E i \in 1..Len(servers) :
          /\ cards[i].alert
          /\ ~Pm2Bad(servers[i])
          /\ cards[i].status = "warn"

-----------------------------------------------------------------------------
(* The push connection on its own: sockets open, fail, close and are       *)
(* replaced, the list refresh interval ticks, and the effect is cleaned up. *)

\* the list:subscribe interval started by ws.onopen
ListRefreshTick ==
    /\ listRefreshTimer
    /\ sent' = sendMessage(wsReady, <<[type |-> "list:subscribe"]>>)
    /\ op' = Plain("list:refresh")
    /\ UNCHANGED <<servers, clock, now, lastMessageAt, connVars, cards, viewVars, touched>>

\* the cleanup of the WebSocket effect, leaving the list refresh interval running
TeardownKeepsRefresh ==
    /\ shouldReconnect
    /\ shouldReconnect' = FALSE
    /\ reconnectTimer' = FALSE
    /\ listRefreshTimer' = listRefreshTimer
    /\ wsReady' = IF wsReady \in {"CONNECTING", "OPEN"} THEN "CLOSING" ELSE wsReady
    /\ sent' = <<>>
    /\ op' = Plain("teardown")
    /\ UNCHANGED <<servers, clock, now, lastMessageAt, connectionState, backoff, sockets,
                   liveOthers, orphanTimers, cards, viewVars, touched>>

\* the cleanup of the WebSocket effect
Teardown ==
    /\ shouldReconnect
    /\ shouldReconnect' = FALSE
    /\ reconnectTimer' = FALSE
    /\ listRefreshTimer' = FALSE
    /\ wsReady' = IF wsReady \in {"CONNECTING", "OPEN"} THEN "CLOSING" ELSE wsReady
    /\ sent' = <<>>
    /\ op' = Plain("teardown")
    /\ UNCHANGED <<servers, clock, now, lastMessageAt, connectionState, backoff, sockets,
                   liveOthers, orphanTimers, cards, viewVars, touched>>

\* the list snapshots of these runs
ConnLists == {<<>>, <<TimedA, TimedB>>}
ConnPushLists == {Arr(l) : l \in ConnLists}
ConnApiLists == {Obj([servers |-> Arr(l)]) : l \in ConnLists}

NextConn ==
    \/ OnOpen
    \/ OnError
    \/ \E code \in {NORMAL_CLOSURE, ABNORMAL_CLOSURE} : OnClose(code)
    \/ ConnectWithin(MaxAttempts)
    \/ ListRefreshTick
    \/ Teardown
    \/ OnMessage(ConnPushLists, TimedUpdates, TimedErrors)
    \/ FetchServersDone(ConnApiLists)

SpecConn == Init /\ [][NextConn]_vars

\* the close event of a socket on which close() was called
CloseDelivered ==
    /\ wsReady = "CLOSING"
    /\ \E code \in {NORMAL_CLOSURE, ABNORMAL_CLOSURE} : OnClose(code)

\* The connection alone, with its timers firing and the browser delivering the
\* close event that follows close().
NextLive ==
    \/ OnOpen
    \/ OnError
    \/ \E code \in {NORMAL_CLOSURE, ABNORMAL_CLOSURE} : OnClose(code)
    \/ ConnectWithin(MaxAttempts)
    \/ ListRefreshTick
    \/ Teardown

SpecLive ==
    /\ Init
    /\ [][NextLive]_vars
    /\ WF_vars(ConnectWithin(MaxAttempts))
    /\ WF_vars(CloseDelivered)

-----------------------------------------------------------------------------
(* Claims about the push connection.                                       *)

InBackoffRange(b) == 100000 <= b /\ b <= 1500000

(* C11: the reconnect backoff never decreases from one step to the next
   except when the connection opens, stays between its floor (1000 ms) and
   its ceiling (15000 ms), and is at the floor right after the connection
   opens. *)
C11_BackoffMonotoneAndBounded ==
    [][ /\ InBackoffRange(backoff)
        /\ InBackoffRange(backoff')
        /\ op'.kind = "open" => backoff' = 100000 /\ connectionState' = "open"
        /\ op'.kind # "open" => backoff' >= backoff
      ]_vars

\* the sixth failed attempt in a row has taken the backoff to its ceiling
C11_Witness ==
    /\ op.kind = "close"
    /\ connectionState = "closed"
    /\ reconnectTimer
    /\ sockets = 6
    /\ backoff = 1500000

Alive == shouldReconnect

(* C12, as claimed: while the effect has not been cleaned up, a connection
   state of 'closed' or 'error' is followed by a new connection attempt
   (connectionState 'connecting'), given that timers fire and a socket that
   is closing closes. *)
C12_AlwaysReconnects ==
    (Alive /\ connectionState \in {"closed", "error"} /\ sockets < MaxAttempts)
        ~> (connectionState = "connecting" \/ ~Alive)

(* C13: once the effect has been cleaned up no socket is created, the
   connection state never becomes 'connecting', and neither the reconnect
   timer nor the list refresh timer is pending, whatever close code the
   socket's close event then carries. *)
C13_NoReconnectAfterTeardown ==
    [][ ~shouldReconnect' =>
          /\ ~reconnectTimer'
          /\ ~listRefreshTimer'
          /\ ~shouldReconnect =>
                /\ sockets' = sockets
                /\ connectionState' = connectionState \/ connectionState' # "connecting"
      ]_vars

\* the close event of the socket has arrived after the cleanup, with an
\* abnormal close code
C13_Witness ==
    /\ ~shouldReconnect
    /\ op.kind = "close"
    /\ op.ids = {ABNORMAL_CLOSURE}
    /\ connectionState = "closed"
    /\ ~reconnectTimer

\* how many sockets are CONNECTING or OPEN
LiveSockets == liveOthers + (IF wsReady \in {"CONNECTING", "OPEN"} THEN 1 ELSE 0)

\* how many reconnect timeouts are pending
PendingReconnects == orphanTimers + (IF reconnectTimer THEN 1 ELSE 0)

(* C14: at most one socket is connecting or open, at most one reconnect
   timer is pending, and a reconnect timer is pending only while no socket
   is connecting or open. *)
C14_OneConnectionAtATime ==
    /\ LiveSockets <= 1
    /\ PendingReconnects <= 1
    /\ PendingReconnects > 0 => LiveSockets = 0

\* a socket is connecting after an earlier one opened and was closed, and no
\* reconnect timer is left
C14_Witness ==
    /\ op.kind = "connect"
    /\ sockets = 3
    /\ LiveSockets = 1
    /\ PendingReconnects = 0
    /\ lastMessageAt # Null

\* the steps that call sendMessage
SendingKinds == {"open", "list:refresh", "list:update", "GET /servers"}

(* C15: a frame is transmitted only by a step that calls sendMessage while
   the current socket is open; a list snapshot or a list refresh handled
   while the socket is not open transmits nothing, and the attempt changes
   nothing of the connection. *)
C15_SendsOnlyWhenOpen ==
    [][ /\ sent' # <<>> =>
              /\ op'.kind \in SendingKinds
              /\ wsReady' = "OPEN"
              /\ op'.kind # "open" => wsReady = "OPEN"
        /\ op'.kind \in {"list:refresh", "list:update", "GET /servers"} /\ wsReady # "OPEN" =>
              /\ sent' = <<>>
              /\ connVars' = connVars
      ]_vars

\* a polled list snapshot with entries has been applied while the socket was
\* closed, and nothing was transmitted
C15_Witness ==
    /\ op.kind = "GET /servers"
    /\ Len(op.incoming) > 0
    /\ Len(servers) = Len(op.incoming)
    /\ wsReady = "CLOSED"
    /\ sent = <<>>

\* the frames are one server:subscribe per entry of the snapshot, in its order
OnePerEntry(frames, incoming) ==
    /\ Len(frames) = Len(incoming)
    /\ \A i \in 1..Len(incoming) :
          frames[i] = [type |-> "server:subscribe", server_id |-> incoming[i].server_id]

(* C16, as claimed: every non-empty list snapshot that is applied, pushed
   or polled, transmits exactly one server:subscribe request per entry. *)
C16_SubscribesPerEntry ==
    [][ op'.kind \in ListKinds /\ Len(op'.incoming) > 0 =>
          OnePerEntry(sent', op'.incoming) ]_vars

(* C16, amended: every non-empty list snapshot that is applied, pushed or
   polled, transmits exactly one server:subscribe request per entry when the
   socket is open, and none when it is not. *)
C16_SubscribesPerEntryWhenOpen ==
    [][ op'.kind \in ListKinds /\ Len(op'.incoming) > 0 =>
          IF wsReady = "OPEN"
          THEN OnePerEntry(sent', op'.incoming)
          ELSE sent' = <<>> ]_vars

\* a polled snapshot of two entries has been applied on an open socket and two
\* requests were transmitted
C16_Witness ==
    /\ op.kind = "GET /servers"
    /\ Len(op.incoming) = 2
    /\ wsReady = "OPEN"
    /\ Len(sent) = 2
    /\ sent[2].type = "server:subscribe"

-----------------------------------------------------------------------------
(* The notification throttle for pm2 processes that are not online.        *)

\* server.stats?.pm2BadCount ?? 0
BadCountOf(server) ==
    IF server.stats = Undefined THEN 0 ELSE Nullish(server.stats.pm2BadCount, Num(0)).v

\* server.stats?.pm2BadNames ?? []
BadNamesOf(server) ==
    IF server.stats = Undefined THEN <<>> ELSE Nullish(server.stats.pm2BadNames, Arr(<<>>)).v

HasBadPm2(server) == BadCountOf(server) > 0

\* servers.filter((server) => (server.stats?.pm2BadCount ?? 0) > 0)
RECURSIVE BadOnly(_)
BadOnly(list) ==
    IF list = <<>> THEN <<>>
    ELSE (IF HasBadPm2(Head(list)) THEN <<Head(list)>> ELSE <<>>) \o BadOnly(Tail(list))

\* pm2Issues: the entries with processes that are not online, in registry order
pm2Issues(list) ==
    LET bad == BadOnly(list)
    IN [i \in 1..Len(bad) |->
           [id |-> bad[i].id, name |-> bad[i].name, host |-> bad[i].host,
            count |-> BadCountOf(bad[i]), names |-> BadNamesOf(bad[i])]]

\* Array.prototype.join
RECURSIVE Join(_, _)
Join(names, separator) ==
    IF names = <<>> THEN ""
    ELSE IF Len(names) = 1 THEN names[1]
    ELSE names[1] \o separator \o Join(Tail(names), separator)

\* `${issue.count}:${issue.names.join('|')}`
SignatureOf(issue) == ToString(issue.count) \o ":" \o Join(issue.names, "|")

\* shouldNotify
ShouldNotify(previous, signature, nowMs) ==
    \/ previous = Undefined
    \/ previous.signature # signature
    \/ nowMs - previous.lastToastAt >= PM2_TOAST_REPEAT_MS

\* pm2Issues.forEach of the effect: the throttle records and the ids notified,
\* issue after issue. A record also remembers the count and names it was made
\* for (history, not read by the effect).
RECURSIVE NotifyEach(_, _, _, _)
NotifyEach(issues, ref, fired, nowMs) ==
    IF issues = <<>> THEN [ref |-> ref, fired |-> fired]
    ELSE LET issue == Head(issues)
             signature == SignatureOf(issue)
         IN IF ShouldNotify(ref[issue.id], signature, nowMs)
            THEN NotifyEach(Tail(issues),
                            [ref EXCEPT ![issue.id] =
                                [signature |-> signature, lastToastAt |-> nowMs,
                                 count |-> issue.count, names |-> issue.names]],
                            Append(fired, issue.id), nowMs)
            ELSE NotifyEach(Tail(issues), ref, fired, nowMs)

\* the throttle records as they would be if none were ever deleted
PrunedNever(ref, issues) == ref

\* the throttle records left once those of the ids without an issue are deleted
Pruned(ref, issues) ==
    [id \in Ids |->
        IF \E i \in 1..Len(issues) : issues[i].id = id THEN ref[id] ELSE Undefined]

InSeq(x, s) == \E i \in 1..Len(s) : s[i] = x

\* the ids notified as new although their latest toast had the same signature
\* and is younger than the repeat interval (history)
Recurred(before, after, fired, nowMs) ==
    {id \in Ids :
        /\ InSeq(id, fired)
        /\ before[id] = Undefined
        /\ toastLog[id] # Undefined
        /\ toastLog[id].signature = after[id].signature
        /\ nowMs - toastLog[id].lastToastAt < PM2_TOAST_REPEAT_MS}

\* the pm2 toast effect, run after a render in which the registry was replaced
Pm2ToastEffect ==
    LET issues == pm2Issues(servers)
        kept == IF issues = <<>> THEN [id \in Ids |-> Undefined]
                ELSE Pruned(pm2ToastRef, issues)
        result == NotifyEach(issues, kept, <<>>, clock)
    IN /\ pm2ToastRef' = result.ref
       /\ toasts' = result.fired
       /\ toastLog' = [id \in Ids |->
                          IF InSeq(id, result.fired)
                          THEN [signature |-> result.ref[id].signature, lastToastAt |-> clock]
                          ELSE toastLog[id]]
       /\ op' = Event("pm2:effect", <<>>, Recurred(pm2ToastRef, result.ref, result.fired, clock))
       /\ sent' = <<>>
       /\ UNCHANGED <<servers, clock, now, lastMessageAt, connVars, cards, gridSize,
                      pageIndex, touched>>

\* badNames.slice(0, 3)
FirstThree(names) == SubSeq(names, 1, IF Len(names) < 3 THEN Len(names) ELSE 3)

\* the stats record parsed from a row whose pm2 details name these processes
\* as not online, in this order
Pm2Report(id, badNames) ==
    WithId(id, [NoFields EXCEPT !.pm2BadCount = Num(Len(badNames)),
                                !.pm2BadNames = Arr(FirstThree(badNames))])

\* what parseStatsList returns in these runs: one server at a time
ToastBatches ==
    { <<Pm2Report("a", <<"api">>)>>,
      <<Pm2Report("a", <<>>)>>,
      <<Pm2Report("a", <<"x|y", "z", "w", "v">>)>>,
      <<Pm2Report("a", <<"x", "y", "z|w", "v">>)>>,
      <<Pm2Report("b", <<"api">>)>> }

ToastApiLists ==
    {Obj([servers |-> Arr(l)]) : l \in {<<TimedA, TimedB>>, <<TimedB>>}}

\* the clock of these runs moves in steps of half the repeat interval
ToastStep == PM2_TOAST_REPEAT_MS \div 2

NextToast ==
    \/ AdvanceBy(ToastStep)
    \/ FetchServersDone(ToastApiLists)
    \/ FetchStatsDone(ToastBatches)
    \/ Pm2ToastEffect

SpecToast == Init /\ [][NextToast]_vars

-----------------------------------------------------------------------------
(* Claims about the notification throttle.                                 *)

Evaluated == op.kind = "pm2:effect"

\* the registry entries with a positive pm2BadCount
BadEntries == {i \in 1..Len(servers) : HasBadPm2(servers[i])}

\* the count and names of the entry are those its throttle record was made for
SameCountAndNames(e, record) ==
    /\ record.count = BadCountOf(e)
    /\ record.names = BadNamesOf(e)

(* C17, as claimed: per server id, an evaluation that finds the same
   (badCount, badNames) as the last notification, less than the repeat
   interval after it, does not notify; one that finds a changed
   (badCount, badNames) notifies at once; and one that finds them unchanged
   once the repeat interval has elapsed notifies again. *)
C17_ThrottlePerSignature ==
    [][ op'.kind = "pm2:effect" =>
          \A i \in BadEntries :
              LET e == servers[i]
                  previous == pm2ToastRef[e.id]
              IN previous # Undefined =>
                    IF SameCountAndNames(e, previous)
                    THEN InSeq(e.id, toasts') <=> clock - previous.lastToastAt >= PM2_TOAST_REPEAT_MS
                    ELSE InSeq(e.id, toasts')
      ]_vars

(* C18: after every evaluation only ids of registry entries with a positive
   pm2BadCount have a throttle record; an entry with a positive pm2BadCount
   and no record is notified by the evaluation, whatever was notified for it
   before it left the alert set. *)
C18_RecordsFollowAlertSet ==
    [][ op'.kind = "pm2:effect" =>
          /\ \A id \in Ids :
                pm2ToastRef'[id] # Undefined =>
                    \E i \in BadEntries : servers[i].id = id
          /\ \A i \in BadEntries :
                pm2ToastRef[servers[i].id] = Undefined =>
                    /\ InSeq(servers[i].id, toasts')
                    /\ pm2ToastRef'[servers[i].id] # Undefined
      ]_vars

\* an entry that had left the alert set is back with the signature of its
\* latest toast, inside the repeat interval, and has been notified again
C18_Witness ==
    /\ Evaluated
    /\ "a" \in op.ids
    /\ InSeq("a", toasts)
    /\ toastLog["a"].lastToastAt = clock
    /\ clock > StartClock

-----------------------------------------------------------------------------
(* The pager: the registry cut into pages that fit the grid, and the        *)
(* rotation through them.                                                   *)

Max(a, b) == IF a > b THEN a ELSE b

\* the pages from the 1-based position i on
RECURSIVE chunkFrom(_, _, _)
chunkFrom(items, size, i) ==
    IF i > Len(items) THEN <<>>
    ELSE <<SubSeq(items, i, Min(i + size - 1, Len(items)))>> \o chunkFrom(items, size, i + size)

\* chunk without the fallback to one empty page and without the short last page
chunkFullPagesOnly(items, size) ==
    [k \in 1..(Len(items) \div Max(1, size)) |->
        SubSeq(items, (k - 1) * size + 1, k * size)]

chunk(items, size) ==
    IF size <= 0 THEN <<items>>
    ELSE LET sliced == chunkFrom(items, size, 1)
         IN IF Len(sliced) > 0 THEN sliced ELSE << <<>> >>

gridMetrics ==
    LET safeWidth == Max(0, gridSize.width)
        safeHeight == Max(0, gridSize.height)
        minCardWidth == IF safeWidth < 560 THEN 180
                        ELSE IF safeWidth < 900 THEN 210
                        ELSE IF safeWidth < 1300 THEN MIN_CARD_WIDTH ELSE 260
        minCardHeight == IF safeHeight < 540 THEN 140
                         ELSE IF safeHeight < 760 THEN 160
                         ELSE IF safeHeight < 900 THEN MIN_CARD_HEIGHT ELSE 200
        columns == Max(1, (safeWidth + GRID_GAP) \div (minCardWidth + GRID_GAP))
        rows == IF safeHeight < 520 THEN 1
                ELSE Max(1, (safeHeight + GRID_GAP) \div (minCardHeight + GRID_GAP))
    IN [columns |-> columns, rows |-> rows, pageSize |-> Max(1, columns * rows)]

pages == chunk(servers, gridMetrics.pageSize)

\* the page shown if an index past the last page were clamped to the last page
normalizedPageIndexClamped ==
    IF Len(pages) = 0 THEN 0 ELSE Min(pageIndex, Len(pages) - 1)

normalizedPageIndex == IF Len(pages) # 0 THEN pageIndex % Len(pages) ELSE 0

\* the ResizeObserver reports the size of the grid
GridWidths == {0, 600, 700}
GridHeights == {0, 600}

Resize ==
    \E width \in GridWidths, height \in GridHeights :
        /\ gridSize' = [width |-> width, height |-> height]
        /\ op' = Plain("resize")
        /\ sent' = <<>>
        /\ UNCHANGED <<servers, clock, now, lastMessageAt, connVars, cards, pm2ToastRef,
                       pageIndex, toasts, toastLog, touched>>

\* the rotation timer fires; it is armed only while there is more than one page.
\* The event keeps the index stored before the tick (history).
RotationTick ==
    /\ Len(pages) > 1
    /\ pageIndex' = (pageIndex + 1) % Len(pages)
    /\ op' = Event("rotate", <<>>, {pageIndex})
    /\ sent' = <<>>
    /\ UNCHANGED <<servers, clock, now, lastMessageAt, connVars, cards, pm2ToastRef,
                   gridSize, toasts, toastLog, touched>>

\* the n-th server of a GET /servers response
PagingEntry(n) ==
    RawEntry(Str(ToString(n)), Str(ToString(n)), Undefined, Undefined, Undefined,
             Undefined, Undefined)

PagingApiLists ==
    {Obj([servers |-> Arr([n \in 1..k |-> PagingEntry(n)])]) : k \in 0..MaxRegistry}

NextPaging ==
    \/ FetchServersDone(PagingApiLists)
    \/ Resize
    \/ RotationTick

SpecPaging == Init /\ [][NextPaging]_vars

-----------------------------------------------------------------------------
(* Claims about the pager.                                                  *)

RECURSIVE Concat(_)
Concat(ps) == IF ps = <<>> THEN <<>> ELSE Head(ps) \o Concat(Tail(ps))

PageSizes(ps) == [k \in 1..Len(ps) |-> Len(ps[k])]

(* C19: for every registry and every page size of at least 1, the pages put
   end to end are the registry in its order, every page but the last holds
   exactly pageSize entries and the last holds between 1 and pageSize; 7
   entries with pageSize 3 give pages of 3, 3 and 1; the empty registry gives
   exactly one empty page; there is always at least one page. *)
C19_ChunkPartitionsRegistry ==
    LET size == gridMetrics.pageSize
        ps == chunk(servers, size)
    IN /\ size >= 1
       /\ Len(ps) >= 1
       /\ Concat(ps) = servers
       /\ \A k \in 1..(Len(ps) - 1) : Len(ps[k]) = size
       /\ servers # <<>> => Len(ps[Len(ps)]) \in 1..size
       /\ servers = <<>> => ps = << <<>> >>
       /\ (Len(servers) = 7 /\ size = 3) => PageSizes(ps) = <<3, 3, 1>>

\* seven entries on a grid of three cards: pages of 3, 3 and 1
C19_Witness ==
    /\ Len(servers) = 7
    /\ gridMetrics.pageSize = 3
    /\ Len(pages) = 3
    /\ Len(pages[3]) = 1

(* C20: the visible page index is always at least 0 and below the page
   count, and every rotation tick, which is taken only while there is more
   than one page, moves the visible page from v to (v + 1) mod pageCount, also
   when the stored index was at or above the page count before the tick. *)
C20_RotationWraps ==
    /\ [](normalizedPageIndex >= 0 /\ normalizedPageIndex < Len(pages))
    /\ [][ op'.kind = "rotate" =>
              /\ Len(pages) > 1
              /\ Len(pages') = Len(pages)
              /\ normalizedPageIndex' = (normalizedPageIndex + 1) % Len(pages)
       ]_vars

\* a tick taken when the page count had shrunk to or below the stored index
C20_Witness ==
    /\ op.kind = "rotate"
    /\ \E stored \in op.ids : stored >= Len(pages)

-----------------------------------------------------------------------------
(* The staleness watchdog: every tick it looks at the connection state and *)
(* at the age of the last inbound frame and may start a GET /stats.         *)

\* the watchdog asking for a poll only while the connection is not open
needsFallbackWhenNotOpen(state, last, nowMs) == state # "open"

\* const age = last ? Date.now() - last : Infinity;
\* connectionStateRef.current !== 'open' || age > 15_000
needsFallback(state, last, nowMs) ==
    \/ state # "open"
    \/ ~Truthy(last)
    \/ nowMs - last.v > FALLBACK_AGE_MS

\* tick of the watchdog; the event keeps the requests it started (history)
WatchdogTick ==
    /\ op' = Event("watchdog", <<>>,
                   IF needsFallback(connectionState, lastMessageAt, clock)
                   THEN {"GET /stats"} ELSE {})
    /\ sent' = <<>>
    /\ UNCHANGED <<servers, clock, now, lastMessageAt, connVars, cards, viewVars, touched>>

\* tick of the periodic stats refresh, which always starts a GET /stats
StatsRefreshTick ==
    /\ op' = Event("stats:refresh", <<>>, {"GET /stats"})
    /\ sent' = <<>>
    /\ UNCHANGED <<servers, clock, now, lastMessageAt, connVars, cards, viewVars, touched>>

\* the clock of these runs moves in steps of the silence the watchdog tolerates
WatchStep == FALLBACK_AGE_MS

NextWatch ==
    \/ AdvanceBy(WatchStep)
    \/ OnOpen
    \/ OnError
    \/ \E code \in {NORMAL_CLOSURE, ABNORMAL_CLOSURE} : OnClose(code)
    \/ Connect
    \/ OnMessage(ConnPushLists, TimedUpdates, TimedErrors)
    \/ FetchStatsDone(TimedBatches)
    \/ WatchdogTick
    \/ StatsRefreshTick

SpecWatch == Init /\ [][NextWatch]_vars

-----------------------------------------------------------------------------
(* Claims about the watchdog.                                               *)

\* an inbound frame arrived and is no older than the tolerated silence
FrameWithin(limit) ==
    /\ lastMessageAt # Null
    /\ clock - lastMessageAt.v <= limit

(* C21: at every tick of the watchdog, if the push channel is not open or
   no inbound frame arrived within the last 15 000 ms, the tick itself starts
   a stats poll, whether or not the periodic refresh is due; if the channel
   is open and a frame arrived within the last 15 000 ms it starts none. *)
C21_WatchdogPollsWhenStale ==
    [][ op'.kind = "watchdog" =>
          IF connectionState = "open" /\ FrameWithin(15000)
          THEN op'.ids = {}
          ELSE op'.ids = {"GET /stats"}
      ]_vars

\* the channel is open, its last frame is older than the limit, and the
\* watchdog has started a poll
C21_Witness ==
    /\ op.kind = "watchdog"
    /\ op.ids = {"GET /stats"}
    /\ connectionState = "open"
    /\ lastMessageAt # Null
    /\ clock - lastMessageAt.v > 15000

-----------------------------------------------------------------------------
(* Inbound frames as text, and the parsers of the stats payloads.           *)

\* isRecord(value.key) ? toNumber(value.key.sub) : undefined
NumberIn(value, key, sub) ==
    IF isRecord(Get(value, key)) THEN toNumber(Get(Get(value, key), sub)) ELSE Undefined

\* isRecord(value.key) ? toString(value.key.sub) : undefined
StringIn(value, key, sub) ==
    IF isRecord(Get(value, key)) THEN toString(Get(Get(value, key), sub)) ELSE Undefined

\* status.toLowerCase(), on the statuses of these runs
toLowerCase(text) ==
    CASE text = "ONLINE" -> "online"
      [] text = "Online" -> "online"
      [] text = "STOPPED" -> "stopped"
      [] OTHER -> text

\* parseServerUpdate: the names pushed by value.pm2.details.forEach
RECURSIVE UpdateBadNames(_)
UpdateBadNames(details) ==
    IF details = <<>> THEN <<>>
    ELSE LET detail == Head(details)
             status == toString(Get(detail, "status"))
             name == Nullish(toString(Get(detail, "name")), toString(Get(detail, "id")))
         IN IF isRecord(detail) /\ Truthy(status) /\ toLowerCase(status.v) # "online"
            THEN <<Nullish(name, Str("unknown")).v>> \o UpdateBadNames(Tail(details))
            ELSE UpdateBadNames(Tail(details))

\* the same, comparing the status with 'online' as it is written
RECURSIVE StatsBadNamesCaseSensitive(_)
StatsBadNamesCaseSensitive(details) ==
    IF details = <<>> THEN <<>>
    ELSE LET detail == Head(details)
             status == toString(Get(detail, "status"))
             name == Nullish(toString(Get(detail, "name")), toString(Get(detail, "id")))
         IN IF isRecord(detail) /\ Truthy(status) /\ status.v # "online"
            THEN <<Nullish(name, Str("unknown")).v>>
                     \o StatsBadNamesCaseSensitive(Tail(details))
            ELSE StatsBadNamesCaseSensitive(Tail(details))

\* parseStatsList: the names pushed by entry.pm2.details.forEach
RECURSIVE StatsBadNames(_)
StatsBadNames(details) ==
    IF details = <<>> THEN <<>>
    ELSE LET detail == Head(details)
             status == toString(Get(detail, "status"))
             name == Nullish(toString(Get(detail, "name")), toString(Get(detail, "id")))
         IN IF isRecord(detail) /\ Truthy(status) /\ toLowerCase(status.v) # "online"
            THEN <<Nullish(name, Str("unknown")).v>> \o StatsBadNames(Tail(details))
            ELSE StatsBadNames(Tail(details))

\* the fields both parsers read the same way once the server id is known
StatsFields(value, serverId, badNames, hasDetails) ==
    [server_id |-> serverId,
     error |-> Nullish(toString(Get(value, "error")), Null),
     cpuUsage |-> NumberIn(value, "cpu", "usage_percent"),
     memoryTotal |-> NumberIn(value, "memory", "total_bytes"),
     memoryUsed |-> NumberIn(value, "memory", "used_bytes"),
     diskTotal |-> NumberIn(value, "disk", "total_bytes"),
     diskUsed |-> NumberIn(value, "disk", "used_bytes"),
     uptime |-> StringIn(value, "uptime", "human"),
     pm2Procs |-> NumberIn(value, "pm2", "processes"),
     pm2Mem |-> NumberIn(value, "pm2", "total_memory_bytes"),
     pm2BadCount |-> IF hasDetails THEN Num(Len(badNames)) ELSE Undefined,
     pm2BadNames |-> IF hasDetails THEN Arr(FirstThree(badNames)) ELSE Undefined,
     supervisorTotal |-> NumberIn(value, "supervisor", "total"),
     supervisorRunning |-> NumberIn(value, "supervisor", "running")]

\* isRecord(value.pm2) && Array.isArray(value.pm2.details)
HasDetails(value) ==
    isRecord(Get(value, "pm2")) /\ Get(Get(value, "pm2"), "details").t = "array"

DetailsOf(value) == IF HasDetails(value) THEN Get(Get(value, "pm2"), "details").v ELSE <<>>

parseServerUpdate(value) ==
    IF ~isRecord(value) THEN Null
    ELSE LET serverId == toString(Get(value, "server_id"))
         IN IF ~Truthy(serverId) THEN Null
            ELSE StatsFields(value, serverId.v, UpdateBadNames(DetailsOf(value)),
                             HasDetails(value))

RECURSIVE ParseStatsEntries(_)
ParseStatsEntries(entries) ==
    IF entries = <<>> THEN <<>>
    ELSE LET entry == Head(entries)
             serverId == Nullish(toString(Get(entry, "server_id")),
                                 toString(Get(entry, "id")))
         IN IF isRecord(entry) /\ Truthy(serverId)
            THEN <<StatsFields(entry, serverId.v, StatsBadNames(DetailsOf(entry)),
                               HasDetails(entry))>> \o ParseStatsEntries(Tail(entries))
            ELSE ParseStatsEntries(Tail(entries))

parseStatsList(value) ==
    IF ~isRecord(value) THEN <<>>
    ELSE IF Get(value, "servers").t # "array" THEN <<>>
    ELSE ParseStatsEntries(Get(value, "servers").v)

\* a frame whose text JSON.parse rejects
NotJson == [t |-> "text"]

\* handleMessage, from the text of the frame on
handleMessage(raw) ==
    IF raw = NotJson \/ ~isRecord(raw) THEN HandleOther
    ELSE LET type == toString(Get(raw, "type"))
         IN IF type = Str("list:update") THEN HandleListUpdate(Get(raw, "servers"))
            ELSE IF type = Str("server:update")
                 THEN HandleServerUpdate(parseServerUpdate(Get(raw, "server")))
            ELSE IF type = Str("server:error") THEN HandleServerError(raw)
            ELSE HandleOther

\* ws.onmessage, from the text of the frame on
OnFrame(frames) ==
    /\ wsReady = "OPEN"
    /\ lastMessageAt' = Num(clock)
    /\ \E raw \in frames : handleMessage(raw)
    /\ UNCHANGED <<clock, now, connVars, cards, viewVars>>

\* a frame of the given type with the given payload under the given key
Typed(type, key, payload) == Obj([type |-> type] @@ (key :> payload))

\* frames the handler has no use for
BadFrames ==
    { NotJson, Str("ping"), Num(1), Null, Arr(<<>>),
      Obj([servers |-> Arr(<<TimedA>>)]),
      Typed(Num(3), "servers", Arr(<<TimedA>>)),
      Typed(Str("bogus"), "servers", Arr(<<TimedA>>)),
      Typed(Str("list:update"), "servers", Str("oops")),
      Typed(Str("list:update"), "list", Arr(<<TimedA>>)),
      Typed(Str("server:update"), "server", Null),
      Typed(Str("server:update"), "server", Obj([server_id |-> Num(7)])),
      Typed(Str("server:update"), "server", Obj([server_id |-> Str("")])),
      Typed(Str("server:error"), "server_id", Num(7)),
      Typed(Str("server:error"), "error", Str("boom")) }

\* frames of the three known shapes
GoodFrames ==
    { Typed(Str("list:update"), "servers", Arr(<<TimedA, TimedB>>)),
      Typed(Str("server:update"), "server",
            Obj([server_id |-> Str("a"),
                 cpu |-> Obj([usage_percent |-> Num(40)]),
                 memory |-> Obj([total_bytes |-> Num(128), used_bytes |-> Num(64)])])),
      Obj([type |-> Str("server:error"), server_id |-> Str("a"), error |-> Str("boom")]),
      Obj([type |-> Str("server:error"), server_id |-> Str("a"), error |-> Str("")]),
      Obj([type |-> Str("server:error"), server_id |-> Str("b")]) }

NextFrames ==
    \/ AdvanceClock
    \/ OnOpen
    \/ OnError
    \/ \E code \in {NORMAL_CLOSURE, ABNORMAL_CLOSURE} : OnClose(code)
    \/ Connect
    \/ OnFrame(BadFrames \cup GoodFrames)
    \/ FetchServersDone(ConnApiLists)

SpecFrames == Init /\ [][NextFrames]_vars

-----------------------------------------------------------------------------
(* Claims about inbound frames.                                             *)

\* the last event was an inbound frame
FrameKinds == {"discarded", "list:update", "server:update", "server:error"}

\* the last event was a frame that is no JSON, no object, of an unknown type,
\* or whose payload the parser of its type rejected
Discarded ==
    \/ op.kind = "discarded"
    \/ op.kind = "list:update" /\ op.incoming = <<>>
    \/ op.kind \in {"server:update", "server:error"} /\ op.ids = {}

(* C22: an inbound frame that is not valid JSON, is not an object, has an
   unknown type, or whose payload fails the validation of its shape changes
   neither the registry nor connectionState nor the reconnect backoff, does
   not close the socket, schedules no reconnect and sends nothing. *)
C22_BadFrameDiscarded ==
    [][ Discarded' =>
          /\ servers' = servers
          /\ connectionState' = connectionState
          /\ backoff' = backoff
          /\ wsReady' = wsReady
          /\ reconnectTimer' = reconnectTimer
          /\ sockets' = sockets
          /\ sent' = <<>>
      ]_vars

\* a rejected frame arrived on the open socket of a dashboard that has entries
C22_Witness ==
    /\ Discarded
    /\ Len(servers) > 0
    /\ wsReady = "OPEN"
    /\ connectionState = "open"

(* C23, as claimed: lastMessageAt is set to the time of arrival exactly when
   the inbound frame parses and has a known shape; a frame that does not
   parse or matches no known shape leaves lastMessageAt as it was. *)
C23_LastMessageAtOnlyOnGoodFrames ==
    [][ op'.kind \in FrameKinds =>
          IF Discarded' THEN lastMessageAt' = lastMessageAt
          ELSE lastMessageAt' = Num(clock)
      ]_vars

-----------------------------------------------------------------------------
(* Claims about closing and opening the connection.                         *)

(* C24: when a socket closes while the effect has not been cleaned up, a
   close with code 1000 sets no reconnect timeout and leaves the backoff; a
   close with any other code, also the one that follows a transport error
   (state 'error', then the close), sets exactly one reconnect timeout whose
   delay is the backoff held before the close, and only then is the backoff
   multiplied by 1.6 and capped at 15 000 ms; a socket that was open and
   closes is retried after the floor of 1000 ms. *)
C24_CloseSchedulesOneReconnect ==
    [][ op'.kind = "close" /\ shouldReconnect =>
          IF op'.ids = {NORMAL_CLOSURE}
          THEN /\ op'.incoming = <<>>
               /\ reconnectTimer' = reconnectTimer
               /\ backoff' = backoff
          ELSE /\ op'.incoming = <<backoff>>
               /\ reconnectTimer'
               /\ PendingReconnects' = 1
               /\ backoff' = Min((backoff * 16) \div 10, 1500000)
               /\ connectionState = "open" => op'.incoming = <<100000>>
      ]_vars

\* a socket created by a reconnect has closed with a code other than 1000
\* while the backoff was at its floor: one timeout is pending, set with the
\* floor as its delay, and the backoff has grown since
C24_Witness ==
    /\ op.kind = "close"
    /\ op.ids = {ABNORMAL_CLOSURE}
    /\ op.incoming = <<100000>>
    /\ backoff = 160000
    /\ shouldReconnect
    /\ sockets > 1
    /\ PendingReconnects = 1

\* what a step that opens, closes or tears down the connection does with the
\* list subscription
SubscribesOnOpen ==
    /\ op'.kind = "open" =>
          /\ connectionState' = "open"
          /\ sent' = <<[type |-> "list:subscribe"]>>
          /\ listRefreshTimer'
          /\ ~listRefreshTimer
    /\ op'.kind \in {"close", "teardown"} => ~listRefreshTimer'

(* C25, as claimed: every step into 'open', the first and those after a
   reconnect, sends exactly one list:subscribe and starts the list refresh
   interval; the interval is cancelled by the close event and by the cleanup;
   no interval is running when one is started, so there is never more than
   one; and the interval runs only while connectionState is 'open'. *)
C25_RefreshOnlyWhileOpen ==
    [][ /\ SubscribesOnOpen
        /\ listRefreshTimer' => connectionState' = "open"
      ]_vars

(* C25, amended: as above, but the interval runs from the open of a socket
   until the close event of that socket or the cleanup, which includes the
   state 'error' between a transport error and the close that follows. *)
C25_RefreshFromOpenToClose ==
    [][ /\ SubscribesOnOpen
        /\ listRefreshTimer' =>
              /\ connectionState' \in {"open", "error"}
              /\ wsReady' \in {"OPEN", "CLOSING"}
              /\ shouldReconnect'
      ]_vars

\* a socket created by a reconnect has opened: one list:subscribe was sent
\* and the refresh interval runs
C25_Witness ==
    /\ op.kind = "open"
    /\ sockets > 1
    /\ sent = <<[type |-> "list:subscribe"]>>
    /\ listRefreshTimer
    /\ connectionState = "open"

-----------------------------------------------------------------------------
(* Claims about the order in which updates arrive.                          *)

CpuOnly == [NoFields EXCEPT !.cpuUsage = Num(55)]

\* updates either channel may deliver, each with few fields present
PartialUpdates ==
    {WithId("a", CpuOnly), WithId("a", MemoryOnly), WithId("a", ErrorOnly),
     WithId("b", CpuOnly), WithId("b", ErrorOnly)}

\* the fields of an update that are present, error included
PresentFields(update) ==
    {f \in MetricFields \cup {"error"} : ~Absent(update[f])}

\* two updates for the same entry that have no present field in common
DisjointPairs ==
    {pair \in PartialUpdates \X PartialUpdates :
        /\ pair[1].server_id = pair[2].server_id
        /\ PresentFields(pair[1]) \cap PresentFields(pair[2]) = {}}

\* the registry after first, then second, each applied on its own
AppliedInOrder(first, second) ==
    applyServerUpdates(applyServerUpdates(servers, <<first>>, clock), <<second>>, clock)

\* whichever of two such updates arrives first, the entries end with the same
\* value in each of the fields
SameInBothOrders(fields) ==
    \A pair \in DisjointPairs :
        LET oneWay == AppliedInOrder(pair[1], pair[2])
            otherWay == AppliedInOrder(pair[2], pair[1])
        IN \A i \in 1..Len(servers) :
              servers[i].id = pair[1].server_id =>
                  \A f \in fields : SameValue(oneWay[i].stats[f], otherWay[i].stats[f])

(* C26, as claimed: for every entry of the registry and every two updates for
   it whose sets of present fields are disjoint, applying one and then the
   other gives the same value of every stats field, error included, as
   applying them the other way round. *)
C26_OrderIrrelevant == SameInBothOrders(MetricFields \cup {"error"})

(* C26, amended: the same for every stats field other than error; the error
   of the entry is that of the update applied last, null if it has none. *)
C26_OrderIrrelevantForMetrics ==
    /\ SameInBothOrders(MetricFields)
    /\ \A pair \in DisjointPairs :
          \A i \in 1..Len(servers) :
              servers[i].id = pair[1].server_id =>
                  AppliedInOrder(pair[1], pair[2])[i].stats.error
                      = Nullish(pair[2].error, Null)

\* a stats update has reached an entry for which two updates with disjoint
\* fields, one with cpu and one with memory, may now arrive in either order
C26_Witness ==
    /\ op.kind \in {"server:update", "GET /stats"}
    /\ \E i \in 1..Len(servers) :
          /\ servers[i].id = "a"
          /\ servers[i].stats # Undefined
          /\ <<WithId("a", CpuOnly), WithId("a", MemoryOnly)>> \in DisjointPairs
          /\ AppliedInOrder(WithId("a", CpuOnly), WithId("a", MemoryOnly))[i].stats.cpuUsage
                 = Num(55)

-----------------------------------------------------------------------------
(* Claims about server errors.                                              *)

\* the entry but for its stats and lastUpdate
Identity(e) == [id |-> e.id, name |-> e.name, host |-> e.host, enabled |-> e.enabled,
                tags |-> e.tags]

(* C27: a server:error for an entry of the registry sets the error of that
   entry to the message, or to 'Server error' when the message is absent or
   empty, keeps every other stats field of the entry and every other entry,
   sets the entry's lastUpdate to the time of arrival, and leaves an enabled
   entry with the status 'down'. *)
C27_ErrorMarksEntryDown ==
    [][ op'.kind = "server:error" /\ op'.ids # {} =>
          LET error == op'.incoming[1]
              message == IF error.error.t = "string" /\ error.error.v # ""
                         THEN error.error ELSE Str("Server error")
          IN /\ Len(servers') = Len(servers)
             /\ \A i \in 1..Len(servers) :
                   IF servers[i].id = error.server_id
                   THEN /\ servers'[i].stats.error = message
                        /\ \A f \in MetricFields :
                              SameValue(servers'[i].stats[f], StatOf(servers[i].stats, f))
                        /\ Identity(servers'[i]) = Identity(servers[i])
                        /\ servers'[i].lastUpdate = Num(clock)
                        /\ servers[i].enabled => getStatus(servers'[i], clock') = "down"
                   ELSE servers'[i] = servers[i]
      ]_vars

\* an error without a usable message has reached an entry that had stats from
\* an earlier time: it has the default message, its cpu value, and a new time
C27_Witness ==
    /\ op.kind = "server:error"
    /\ clock > StartClock
    /\ \E i \in 1..Len(servers) :
          /\ servers[i].id \in op.ids
          /\ servers[i].stats.error = Str("Server error")
          /\ servers[i].stats.cpuUsage = Num(40)
          /\ servers[i].lastUpdate = Num(clock)
          /\ getStatus(servers[i], clock) = "down"

-----------------------------------------------------------------------------
(* The pm2 details of a server, as the push channel and the poll channel    *)
(* deliver them.                                                            *)

\* fetchStats, from the body of the response on
FetchStatsParsed(bodies) ==
    \E data \in bodies :
        LET updates == parseStatsList(data)
        IN /\ servers' = IF Len(updates) > 0 THEN applyServerUpdates(servers, updates, clock)
                         ELSE servers
           /\ sent' = <<>>
           /\ op' = Event("GET /stats", <<>>, IdsOfUpdates(updates))
           /\ touched' = Touch(IdsOfUpdates(updates))
           /\ UNCHANGED <<clock, now, lastMessageAt, connVars, cards, viewVars>>

\* one process of pm2.details
Process(name, status) == Obj([name |-> Str(name), status |-> Str(status)])

\* the pm2.details lists of these runs
DetailLists ==
    { <<>>,
      <<Process("api", "online")>>,
      <<Process("api", "ONLINE"), Process("web", "Online"), Process("db", "stopped")>>,
      <<Process("db", "STOPPED"), Obj([id |-> Str("7"), status |-> Str("errored")]),
        Process("api", "online"), Process("web", "stopped"), Process("job", "launching")>>,
      <<Obj([id |-> Num(3), status |-> Str("stopped")])>>,
      <<Null, Str("db"), Process("db", "stopped")>>,
      <<Obj([name |-> Str("api")]), Obj([name |-> Str("db"), status |-> Num(0)])>>,
      <<Process("api", ""), Process("db", "stopped")>> }

\* the server value of a server:update frame with these details
Pm2Server(id, details) ==
    Obj([server_id |-> Str(id), pm2 |-> Obj([processes |-> Num(Len(details)),
                                               details |-> Arr(details)])])

Pm2Frames == {Typed(Str("server:update"), "server", Pm2Server("a", d)) : d \in DetailLists}

\* the body of a GET /stats response with these details
Pm2Bodies == {Obj([servers |-> Arr(<<Pm2Server(id, d)>>)]) : id \in Ids, d \in DetailLists}

NextPm2 ==
    \/ OnOpen
    \/ FetchServersDone(ConnApiLists)
    \/ OnFrame(Pm2Frames)
    \/ FetchStatsParsed(Pm2Bodies)

SpecPm2 == Init /\ [][NextPm2]_vars

-----------------------------------------------------------------------------
(* Claims about the pm2 details.                                            *)

StatusOf(detail) == toString(Get(detail, "status"))

\* the status is text other than 'online' in any mix of cases
NotOnline(detail) ==
    /\ StatusOf(detail) # Undefined
    /\ toLowerCase(StatusOf(detail).v) # "online"

\* the status is text, not empty, other than 'online' in any mix of cases
NotOnlineNamed(detail) == NotOnline(detail) /\ StatusOf(detail).v # ""

\* the name of the process if it is text, else its id if it is text
NameOrId(detail) ==
    IF Get(detail, "name").t = "string" THEN Get(detail, "name").v
    ELSE IF Get(detail, "id").t = "string" THEN Get(detail, "id").v
    ELSE "unknown"

\* the positions of the list, in order, whose entry is in the set bad
RECURSIVE NamesAt(_, _, _)
NamesAt(details, bad, k) ==
    IF k > Len(details) THEN <<>>
    ELSE IF k \in bad THEN <<NameOrId(details[k])>> \o NamesAt(details, bad, k + 1)
    ELSE NamesAt(details, bad, k + 1)

\* both parsers report these positions of the list as bad: their number as
\* pm2BadCount and the first three of their names as pm2BadNames
BothReport(details, bad) ==
    LET pushed == parseServerUpdate(Pm2Server("a", details))
        polled == parseStatsList(Obj([servers |-> Arr(<<Pm2Server("a", details)>>)]))
        names == NamesAt(details, bad, 1)
    IN /\ Len(polled) = 1
       /\ pushed.pm2BadCount = Num(Cardinality(bad))
       /\ pushed.pm2BadNames = Arr(SubSeq(names, 1, Min(3, Len(names))))
       /\ polled[1].pm2BadCount = pushed.pm2BadCount
       /\ polled[1].pm2BadNames = pushed.pm2BadNames

\* what the registry holds came from the parsers: never more than three names,
\* and never more names than the count
StoredAsParsed ==
    \A i \in 1..Len(servers) :
        servers[i].stats # Undefined /\ ~Absent(servers[i].stats.pm2BadNames) =>
            Len(servers[i].stats.pm2BadNames.v) = Min(3, servers[i].stats.pm2BadCount.v)

(* C28, as claimed: for every pm2.details list, both parsers count as bad
   every entry whose status is not 'online' compared without regard to case,
   give their number as pm2BadCount and the first three of their names (or
   ids), in list order, as pm2BadNames, and agree with each other. *)
C28_BadProcessesCounted ==
    /\ StoredAsParsed
    /\ \A details \in DetailLists :
          BothReport(details, {k \in 1..Len(details) : NotOnline(details[k])})

(* C28, amended: the same, where an entry counts as bad when its status is
   text, not empty, and not 'online' compared without regard to case; the
   name is the entry's name if that is text, else its id if that is text,
   else 'unknown'. *)
C28_NamedBadProcessesCounted ==
    /\ StoredAsParsed
    /\ \A details \in DetailLists :
          BothReport(details, {k \in 1..Len(details) : NotOnlineNamed(details[k])})

\* a pushed update with four processes not online has reached the registry:
\* the count is four and the names are those of the first three
C28_Witness ==
    /\ op.kind = "server:update"
    /\ \E i \in 1..Len(servers) :
          /\ servers[i].id \in op.ids
          /\ servers[i].stats.pm2BadCount = Num(4)
          /\ servers[i].stats.pm2BadNames = Arr(<<"db", "7", "web">>)
====
